---- MODULE Spec2Model ----
(***************************************************************************)
(* State-machine model of ProductionScheduler (src/scheduler.py): the      *)
(* loaders that build the instance table, build_dynamic_dependencies, the  *)
(* slot search get_next_working_time_with_capacity and the main loop of    *)
(* schedule_tasks.                                                         *)
(*                                                                         *)
(* Time is an integer number of minutes counted from 2025-08-22 00:00 (a   *)
(* Friday), the calendar day of the engine's start datum.  Every datetime  *)
(* the engine handles has zero seconds, so one minute is exact.            *)
(* Priorities are kept multiplied by 10 so that the retry penalty of 0.1   *)
(* and the duration/10 term stay integers.                                 *)
(***************************************************************************)
EXTENDS Integers, Sequences, FiniteSets, TLC

VARIABLES
    csv,                    \* the tables load_data_from_csv leaves unchanged afterwards
    tasks,                  \* self.tasks: instance id -> task_info
    team_capacity,          \* self.team_capacity
    quality_team_capacity,  \* self.quality_team_capacity
    customer_team_capacity, \* self.customer_team_capacity
    now,                    \* the value datetime.now() returns during the run
    task_schedule,          \* self.task_schedule: instance id -> schedule record
    ready_tasks,            \* the heap of schedule_tasks, as the list of its entries
    task_retry_counts,      \* schedule_tasks: task_retry_counts
    failed_tasks,           \* schedule_tasks: failed_tasks
    scheduled_count,        \* schedule_tasks: scheduled_count
    iteration_count,        \* schedule_tasks: iteration_count
    dynamic_constraints_cache, \* self._dynamic_constraints_cache
    silent_mode,            \* the silent_mode argument of the run
    schedule_order,         \* the key order of the dict self.task_schedule
    last,                   \* what the latest loop iteration did with which instance
    pc,                     \* position of the run: "loaded", "loop", "done", "error"
    driver                  \* the caller of schedule_tasks: its locals while a run is under way

vars == <<csv, tasks, team_capacity, quality_team_capacity, customer_team_capacity,
          now, task_schedule, ready_tasks, task_retry_counts, failed_tasks,
          scheduled_count, iteration_count, dynamic_constraints_cache, silent_mode,
          schedule_order, last, pc, driver>>

---------------------------------------------------------------------------
(* Bounds of the model *)

\* headcounts required by a template range over 1..MaxMechanics
MaxMechanics == 2
\* team capacities range over 1..MaxCapacity
MaxCapacity == 2
\* the days, counted from the start datum, on which the slot search is probed
MaxProbeDay == 4

---------------------------------------------------------------------------
(* Program constants *)

DayMinutes == 1440
\* datetime(2025, 8, 22, 6, 0): minute 360 of day 0
StartDateMinute == 360
\* 2025-08-22 is a Friday: date.weekday() = 4
StartWeekday == 4
\* max_days_ahead of the slot search
max_days_ahead == 30
\* first minute of year 2031 (1958 days after 2025-08-22): scheduled_start.year > 2030
FarFutureMinute == 2819520
\* the retry limit of schedule_tasks
MaxRetries == 3

None == "None"

FS == "Finish <= Start"
FeS == "Finish = Start"
FF == "Finish <= Finish"
SS == "Start <= Start"
SeS == "Start = Start"
SF == "Start <= Finish"
Relationships == {FS, FeS, FF, SS, SeS, SF}

Max2(a, b) == IF a >= b THEN a ELSE b
Abs(x) == IF x >= 0 THEN x ELSE -x
Range(s) == {s[i] : i \in DOMAIN s}

---------------------------------------------------------------------------
(* Calendar and shift arithmetic *)

\* datetime.replace(hour=0, minute=0): midnight of t's day
Midnight(t) == t - (t % DayMinutes)
DayOf(t) == t \div DayMinutes
Weekday(day) == (StartWeekday + day) % 7

holidays == csv.holidays
delivery_dates == csv.delivery_dates
shift_hours == csv.shift_hours

\* is_working_day(date, product_line)
is_working_day(day, product_line) ==
    IF Weekday(day) >= 5 THEN FALSE
    ELSE IF product_line = None THEN TRUE
    ELSE IF product_line \notin DOMAIN holidays THEN TRUE
    ELSE day \notin holidays[product_line]

\* The window the slot search computes for `shift` on the day starting at
\* check_date, when the search was called with current_time and is at days_ahead.
shift_start(shift, check_date, days_ahead, current_time) ==
    IF shift = "3rd"
    THEN IF days_ahead = 0 /\ (current_time % DayMinutes) < 360
         THEN (check_date - DayMinutes) + 23 * 60
         ELSE check_date + 23 * 60
    ELSE check_date + shift_hours[shift].start

shift_end_stretched(shift, check_date, days_ahead, current_time) ==
    (check_date + DayMinutes) + 6 * 60
shift_end(shift, check_date, days_ahead, current_time) ==
    IF shift = "3rd"
    THEN IF days_ahead = 0 /\ (current_time % DayMinutes) < 360
         THEN check_date + 6 * 60
         ELSE (check_date + DayMinutes) + 6 * 60
    ELSE check_date + shift_hours[shift].end

\* "Round up to next 15-minute mark" on the minute field of the datetime
RoundUpBug(t) == t
RoundUp15(t) ==
    LET minutes == t % 60 IN
    IF minutes % 15 # 0
    THEN LET rounded_minutes == ((minutes \div 15) + 1) * 15 IN
         IF rounded_minutes >= 60 THEN (t - minutes) + 60
         ELSE (t - minutes) + rounded_minutes
    ELSE t

---------------------------------------------------------------------------
(* Team names *)

\* dict.get(key, default)
Get(f, k, default) == IF k \in DOMAIN f THEN f[k] ELSE default

team_shifts == csv.team_shifts
quality_team_shifts == csv.quality_team_shifts
customer_team_shifts == csv.customer_team_shifts

\* team.split('(')[0].strip(): the base team of a team_skill unit
BaseTeamOf(team) ==
    CASE team = "Mechanic Team 1 (Skill 1)" -> "Mechanic Team 1"
      [] team = "Mechanic Team 2 (Skill 1)" -> "Mechanic Team 2"
      [] OTHER -> team

\* re.search(r'(\d+)', name).group(1): the first number in a team name, 0 when
\* the name holds none
TeamNumber(team) ==
    CASE team \in {"Mechanic Team 1", "Mechanic Team 1 (Skill 1)",
                   "Quality Team 1", "Customer Team 1"} -> 1
      [] team \in {"Mechanic Team 2", "Mechanic Team 2 (Skill 1)",
                   "Quality Team 2", "Customer Team 2"} -> 2
      [] team \in {"Mechanic Team 3", "Quality Team 3"} -> 3
      [] OTHER -> 0

\* f'Quality Team {team_number}'
QualityTeamName(n) ==
    CASE n = 1 -> "Quality Team 1"
      [] n = 2 -> "Quality Team 2"
      [] n = 3 -> "Quality Team 3"
      [] OTHER -> None

\* map_mechanic_to_quality_team(mechanic_team), against the quality teams in keys
MapWrongTeam(mechanic_team, keys) ==
    IF mechanic_team = None THEN None
    ELSE IF keys = {} THEN None
    ELSE CHOOSE q \in keys : \A r \in keys : TeamNumber(q) <= TeamNumber(r)
MapToQuality(mechanic_team, keys) ==
    IF mechanic_team = None THEN None
    ELSE IF TeamNumber(mechanic_team) # 0
            /\ QualityTeamName(TeamNumber(mechanic_team)) \in keys
         THEN QualityTeamName(TeamNumber(mechanic_team))
         ELSE None

map_mechanic_to_quality_team(mechanic_team) ==
    MapToQuality(mechanic_team, DOMAIN quality_team_capacity)

---------------------------------------------------------------------------
(* The slot search *)

RECURSIVE SumHeadcount(_, _)
SumHeadcount(ids, sched) ==
    IF ids = {} THEN 0
    ELSE LET i == CHOOSE x \in ids : TRUE IN
         sched[i].mechanics_required + SumHeadcount(ids \ {i}, sched)

\* the records the capacity check of the slot search counts against a task that
\* would run on `team` over [start, task_end)
OverlapTest(sch, start, task_end) ==
    sch.start_time < task_end /\ sch.end_time > start

ConflictingIds(team, start, task_end, is_quality, is_customer) ==
    {i \in DOMAIN task_schedule :
        LET schedule == task_schedule[i] IN
        /\ IF is_customer THEN schedule.team_skill = team
           ELSE \/ schedule.team_skill = team
                \/ (~is_quality /\ schedule.team = team)
        /\ OverlapTest(schedule, start, task_end)}

\* capacity and shifts "based on team type"
CapacityFor(team, is_quality, is_customer) ==
    IF is_customer THEN Get(customer_team_capacity, team, 0)
    ELSE IF is_quality THEN Get(quality_team_capacity, team, 0)
    ELSE Get(team_capacity, team, 0)

ShiftsFor(team, is_quality, is_customer) ==
    IF is_customer THEN Get(customer_team_shifts, team, <<"1st">>)
    ELSE IF is_quality THEN Get(quality_team_shifts, team, <<"1st">>)
    ELSE Get(team_shifts, BaseTeamOf(team), Get(team_shifts, team, <<"1st">>))

\* "Check if task fits in shift": task_end > shift_end means it does not
FitsLoose(task_end, s_end) == task_end <= s_end + 1
FitsInShift(task_end, s_end) == ~(task_end > s_end)

\* "if capacity - conflicts >= mechanics_needed"
EnoughOffByOne(capacity, conflicts, mechanics_needed) ==
    capacity - conflicts >= mechanics_needed - 1
EnoughCapacity(capacity, conflicts, mechanics_needed) ==
    capacity - conflicts >= mechanics_needed

NoSlot == [found |-> FALSE, start |-> 0, shift |-> None]

\* one (days_ahead, shift) candidate of the search: the slot it yields, or NoSlot
SlotAt(days_ahead, shift, current_time, product_line, team, mechanics_needed, duration, is_quality, is_customer) ==
    LET check_date == Midnight(current_time + days_ahead * DayMinutes)
        s_start == shift_start(shift, check_date, days_ahead, current_time)
        s_end == shift_end(shift, check_date, days_ahead, current_time)
        earliest_in_shift == RoundUp15(Max2(s_start, current_time))
        task_end == earliest_in_shift + duration
        capacity == CapacityFor(team, is_quality, is_customer)
    IN  IF ~is_working_day(DayOf(check_date), product_line) THEN NoSlot
        ELSE IF shift \notin DOMAIN shift_hours THEN NoSlot
        ELSE IF s_end <= current_time THEN NoSlot
        ELSE IF ~FitsInShift(task_end, s_end) THEN NoSlot
        ELSE IF EnoughCapacity(capacity,
                    SumHeadcount(ConflictingIds(team, earliest_in_shift, task_end,
                                                is_quality, is_customer),
                                 task_schedule),
                    mechanics_needed)
             THEN [found |-> TRUE, start |-> earliest_in_shift, shift |-> shift]
             ELSE NoSlot

RECURSIVE SearchFrom(_, _, _, _, _, _, _, _, _)
SearchFrom(k, shifts, current_time, product_line, team, mechanics_needed, duration, is_quality, is_customer) ==
    IF k >= max_days_ahead * Len(shifts) THEN NoSlot
    ELSE LET r == SlotAt(k \div Len(shifts), shifts[(k % Len(shifts)) + 1],
                         current_time, product_line, team,
                         mechanics_needed, duration, is_quality, is_customer)
         IN  IF r.found THEN r
             ELSE SearchFrom(k + 1, shifts, current_time, product_line, team,
                             mechanics_needed, duration, is_quality, is_customer)

\* get_next_working_time_with_capacity
get_next_working_time_with_capacity(current_time, product_line, team, mechanics_needed, duration, is_quality, is_customer) ==
    LET capacity == CapacityFor(team, is_quality, is_customer)
        shifts == ShiftsFor(team, is_quality, is_customer)
    IN  IF capacity = 0 \/ mechanics_needed > capacity \/ Len(shifts) = 0 THEN NoSlot
        ELSE SearchFrom(0, shifts, current_time, product_line, team,
                        mechanics_needed, duration, is_quality, is_customer)

---------------------------------------------------------------------------
(* Instance ids.  Python builds them by string formatting; the tables below *)
(* give the results over the products and templates of the model.           *)

\* create_task_instance_id(product, task_id, 'baseline'): f"{product}_{task_id}"
create_task_instance_id(product, task_id) ==
    CASE product = "P" /\ task_id = 1 -> "P_1"
      [] product = "P" /\ task_id = 2 -> "P_2"
      [] product = "P" /\ task_id = 3 -> "P_3"
      [] product = "Q" /\ task_id = 1 -> "Q_1"
      [] product = "Q" /\ task_id = 2 -> "Q_2"
      [] product = "Q" /\ task_id = 3 -> "Q_3"
      [] OTHER -> None

\* f"{product}_QI_{qi_task_id}" with Quality Task 501
QIInstanceId(product, qi_task_id) ==
    CASE product = "P" -> "P_QI_501"
      [] product = "Q" -> "Q_QI_501"
      [] OTHER -> None

\* f"{product}_{cc_task_id}" with Customer Task CC_601
CCInstanceId(product, cc_task_id) ==
    CASE product = "P" -> "P_CC_601"
      [] product = "Q" -> "Q_CC_601"
      [] OTHER -> None

\* Python's order on the id strings (heap entries are (priority, id) tuples)
IdOrder ==
    <<"LP_1000", "LP_1001", "P_1", "P_2", "P_3", "P_CC_601", "P_QI_501",
      "Q_1", "Q_2", "Q_3", "Q_CC_601", "Q_QI_501">>

IdRank(id) == CHOOSE i \in DOMAIN IdOrder : IdOrder[i] = id

---------------------------------------------------------------------------
(* The loaders.  `p` is the content of the input file, table by table.      *)

\* _load_product_lines: the instances of product over its remaining range
InRange(p, product, task_id) ==
    /\ product \in DOMAIN p.product_remaining_ranges
    /\ p.product_remaining_ranges[product][1] <= task_id
    /\ task_id <= p.product_remaining_ranges[product][2]

\* self.task_instance_map.get((product, task_id))
TaskInstanceMap(p, product, task_id) ==
    IF InRange(p, product, task_id) /\ task_id \in DOMAIN p.baseline_task_data
    THEN create_task_instance_id(product, task_id)
    ELSE None

BaselineInstances(p) ==
    {<<product, t>> \in Range(p.products) \X DOMAIN p.baseline_task_data :
        TaskInstanceMap(p, product, t) # None}

BaselineInfo(p, product, t) ==
    LET b == p.baseline_task_data[t] IN
    [duration |-> b.duration, team |-> b.team, team_skill |-> b.team_skill,
     mechanics_required |-> b.mechanics_required, is_quality |-> FALSE,
     is_customer |-> FALSE, task_type |-> "Production",
     primary_task |-> None, product |-> product]

\* _load_quality_inspections: one inspection per product whose range holds the primary
QIInstances(p) ==
    {<<product, i>> \in Range(p.products) \X DOMAIN p.quality_rows :
        /\ InRange(p, product, p.quality_rows[i].primary)
        /\ TaskInstanceMap(p, product, p.quality_rows[i].primary) # None}

QIInfo(p, product, i) ==
    LET row == p.quality_rows[i]
        primary_instance_id == TaskInstanceMap(p, product, row.primary)
        primary_team == p.baseline_task_data[row.primary].team
        quality_team == MapToQuality(primary_team, p.quality_keys_at_load)
    IN  [duration |-> row.duration, team |-> quality_team, team_skill |-> quality_team,
         mechanics_required |-> row.headcount, is_quality |-> TRUE,
         is_customer |-> FALSE, task_type |-> "Quality Inspection",
         primary_task |-> primary_instance_id, product |-> product]

\* _load_customer_inspections
CCInstances(p) ==
    {<<product, i>> \in Range(p.products) \X DOMAIN p.customer_rows :
        /\ InRange(p, product, p.customer_rows[i].primary)
        /\ TaskInstanceMap(p, product, p.customer_rows[i].primary) # None}

CCInfo(p, product, i) ==
    LET row == p.customer_rows[i] IN
    [duration |-> row.duration, team |-> "Customer Team 1",
     team_skill |-> "Customer Team 1",
     mechanics_required |-> row.headcount, is_quality |-> FALSE,
     is_customer |-> TRUE, task_type |-> "Customer",
     primary_task |-> TaskInstanceMap(p, product, row.primary), product |-> product]

\* _load_late_parts_and_rework, late parts: the product comes from the first
\* late-part constraint that names one; team and skill are inherited from the
\* baseline instance the part feeds (find_baseline_task_for_dependency), else
\* "<Resource Type> (Skill 1)"
LatePartProduct(p, task_id) ==
    LET hits == {i \in DOMAIN p.late_part_constraints :
                    /\ p.late_part_constraints[i].First = task_id
                    /\ p.late_part_constraints[i].Product_Line # None}
    IN  IF hits = {} THEN None
        ELSE p.late_part_constraints[CHOOSE i \in hits : \A j \in hits : i <= j].Product_Line

LatePartBaseline(p, task_id) ==
    LET product == LatePartProduct(p, task_id)
        hits == {i \in DOMAIN p.late_part_constraints :
                    /\ p.late_part_constraints[i].First = task_id
                    /\ product # None
                    /\ TaskInstanceMap(p, product, p.late_part_constraints[i].Second) # None}
    IN  IF hits = {} THEN 0
        ELSE p.late_part_constraints[CHOOSE i \in hits : \A j \in hits : i <= j].Second

SkillOneOf(base_team) ==
    CASE base_team = "Mechanic Team 1" -> "Mechanic Team 1 (Skill 1)"
      [] base_team = "Mechanic Team 2" -> "Mechanic Team 2 (Skill 1)"
      [] OTHER -> None

LatePartInfo(p, i) ==
    LET row == p.late_part_rows[i]
        product == LatePartProduct(p, row.Task)
        t == LatePartBaseline(p, row.Task)
    IN  [duration |-> row.duration,
         team |-> IF t # 0 THEN p.baseline_task_data[t].team ELSE row.team,
         team_skill |-> IF t # 0 THEN p.baseline_task_data[t].team_skill
                        ELSE SkillOneOf(row.team),
         mechanics_required |-> row.mechanics_required, is_quality |-> FALSE,
         is_customer |-> FALSE, task_type |-> "Late Part",
         primary_task |-> None, product |-> product]

\* self.tasks after load_data_from_csv
LoadTasks(p) ==
    LET ids == {create_task_instance_id(x[1], x[2]) : x \in BaselineInstances(p)}
               \cup {QIInstanceId(x[1], p.quality_rows[x[2]].qi_task) : x \in QIInstances(p)}
               \cup {CCInstanceId(x[1], p.customer_rows[x[2]].cc_task) : x \in CCInstances(p)}
               \cup {p.late_part_rows[i].Task : i \in DOMAIN p.late_part_rows}
    IN  [id \in ids |->
            IF \E x \in BaselineInstances(p) : create_task_instance_id(x[1], x[2]) = id
            THEN LET x == CHOOSE x \in BaselineInstances(p) :
                              create_task_instance_id(x[1], x[2]) = id
                 IN BaselineInfo(p, x[1], x[2])
            ELSE IF \E x \in QIInstances(p) : QIInstanceId(x[1], p.quality_rows[x[2]].qi_task) = id
            THEN LET x == CHOOSE x \in QIInstances(p) :
                              QIInstanceId(x[1], p.quality_rows[x[2]].qi_task) = id
                 IN QIInfo(p, x[1], x[2])
            ELSE IF \E x \in CCInstances(p) : CCInstanceId(x[1], p.customer_rows[x[2]].cc_task) = id
            THEN LET x == CHOOSE x \in CCInstances(p) :
                              CCInstanceId(x[1], p.customer_rows[x[2]].cc_task) = id
                 IN CCInfo(p, x[1], x[2])
            ELSE LatePartInfo(p, CHOOSE i \in DOMAIN p.late_part_rows :
                                     p.late_part_rows[i].Task = id)]

\* self.quality_requirements / self.customer_requirements: primary -> inspection
LoadQualityRequirements(p) ==
    LET T == LoadTasks(p)
        prim == {T[id].primary_task : id \in {i \in DOMAIN T : T[i].is_quality}}
    IN  [x \in prim |-> CHOOSE id \in DOMAIN T : T[id].is_quality /\ T[id].primary_task = x]

LoadCustomerRequirements(p) ==
    LET T == LoadTasks(p)
        prim == {T[id].primary_task : id \in {i \in DOMAIN T : T[i].is_customer}}
    IN  [x \in prim |-> CHOOSE id \in DOMAIN T : T[id].is_customer /\ T[id].primary_task = x]

\* self.on_dock_dates: keyed by the First of each late-part constraint (last row wins)
LoadOnDockDates(p) ==
    LET firsts == {p.late_part_constraints[i].First : i \in DOMAIN p.late_part_constraints}
    IN  [f \in firsts |->
            LET hits == {i \in DOMAIN p.late_part_constraints :
                            p.late_part_constraints[i].First = f}
            IN  p.late_part_constraints[CHOOSE i \in hits : \A j \in hits : i >= j].On_Dock_Date]

\* the tables that stay as loaded
LoadTables(p) ==
    [products |-> p.products,
     delivery_dates |-> p.delivery_dates,
     product_remaining_ranges |-> p.product_remaining_ranges,
     baseline_task_data |-> p.baseline_task_data,
     holidays |-> p.holidays,
     shift_hours |-> p.shift_hours,
     team_shifts |-> p.team_shifts,
     quality_team_shifts |-> p.quality_team_shifts,
     customer_team_shifts |-> p.customer_team_shifts,
     customer_team_order |-> p.customer_team_order,
     precedence_constraints |-> p.precedence_constraints,
     late_part_constraints |-> p.late_part_constraints,
     quality_requirements |-> LoadQualityRequirements(p),
     customer_requirements |-> LoadCustomerRequirements(p),
     late_part_tasks |-> {p.late_part_rows[i].Task : i \in DOMAIN p.late_part_rows},
     on_dock_dates |-> LoadOnDockDates(p),
     late_part_delay_minutes |-> p.late_part_delay_minutes,
     original_team_capacity |-> p.team_capacity,
     original_quality_capacity |-> p.quality_team_capacity]

---------------------------------------------------------------------------
(* build_dynamic_dependencies *)

precedence_constraints == csv.precedence_constraints
late_part_constraints == csv.late_part_constraints
quality_requirements == csv.quality_requirements
customer_requirements == csv.customer_requirements
late_part_tasks == csv.late_part_tasks
on_dock_dates == csv.on_dock_dates

\* _normalize_relationship_type
normalize_relationship_type(relationship) ==
    CASE relationship = None -> FS
      [] relationship \in {"FS", "Finish-Start", "F-S"} -> FS
      [] relationship \in {"F=S", "Finish=Start"} -> FeS
      [] relationship \in {"FF", "Finish-Finish", "F-F"} -> FF
      [] relationship \in {"SS", "Start-Start", "S-S"} -> SS
      [] relationship \in {"S=S", "Start=Start"} -> SeS
      [] relationship \in {"SF", "Start-Finish", "S-F"} -> SF
      [] OTHER -> relationship

Edge(first, second, relationship, product) ==
    [First |-> first, Second |-> second, Relationship |-> relationship,
     Product |-> product]

\* self.task_instance_map.get((product, task_id)) on the loaded tables
task_instance_map(product, task_id) ==
    IF /\ product \in DOMAIN csv.product_remaining_ranges
       /\ csv.product_remaining_ranges[product][1] <= task_id
       /\ task_id <= csv.product_remaining_ranges[product][2]
       /\ task_id \in DOMAIN csv.baseline_task_data
    THEN create_task_instance_id(product, task_id)
    ELSE None

\* step 1, one template constraint in one product: the chain through the
\* inspections of the first instance
BaselineChainDirect(constraint, product) ==
    LET first_instance == task_instance_map(product, constraint.First)
        second_instance == task_instance_map(product, constraint.Second)
    IN  IF first_instance = None \/ second_instance = None THEN <<>>
        ELSE <<Edge(first_instance, second_instance,
                    normalize_relationship_type(constraint.Relationship), product)>>
BaselineChain(constraint, product) ==
    LET first_instance == task_instance_map(product, constraint.First)
        second_instance == task_instance_map(product, constraint.Second)
        relationship == normalize_relationship_type(constraint.Relationship)
        has_qi == first_instance \in DOMAIN quality_requirements
        has_cc == first_instance \in DOMAIN customer_requirements
    IN  IF first_instance = None \/ second_instance = None THEN <<>>
        ELSE IF has_qi /\ has_cc
        THEN <<Edge(first_instance, quality_requirements[first_instance], FeS, product),
               Edge(quality_requirements[first_instance],
                    customer_requirements[first_instance], FeS, product),
               Edge(customer_requirements[first_instance], second_instance,
                    relationship, product)>>
        ELSE IF has_qi
        THEN <<Edge(first_instance, quality_requirements[first_instance], FeS, product),
               Edge(quality_requirements[first_instance], second_instance,
                    relationship, product)>>
        ELSE IF has_cc
        THEN <<Edge(first_instance, customer_requirements[first_instance], FeS, product),
               Edge(customer_requirements[first_instance], second_instance,
                    relationship, product)>>
        ELSE <<Edge(first_instance, second_instance, relationship, product)>>

RECURSIVE BaselineEdges(_, _)
BaselineEdges(ci, pi) ==
    IF ci > Len(precedence_constraints) THEN <<>>
    ELSE IF pi > Len(csv.products) THEN BaselineEdges(ci + 1, 1)
    ELSE BaselineChain(precedence_constraints[ci], csv.products[pi])
         \o BaselineEdges(ci, pi + 1)

\* step 2: the late-part constraints whose two ends resolve to instances
LatePartSecond(lp_constraint) ==
    LET product == lp_constraint.Product_Line
        direct == IF product # None THEN task_instance_map(product, lp_constraint.Second)
                  ELSE None
        others == {i \in DOMAIN csv.products :
                      task_instance_map(csv.products[i], lp_constraint.Second) # None}
    IN  IF direct # None THEN direct
        ELSE IF others = {} THEN None
        ELSE task_instance_map(csv.products[CHOOSE i \in others : \A j \in others : i <= j],
                               lp_constraint.Second)

RECURSIVE LatePartEdges(_)
LatePartEdges(i) ==
    IF i > Len(late_part_constraints) THEN <<>>
    ELSE LET c == late_part_constraints[i]
             first_instance == IF c.First \in DOMAIN tasks THEN c.First ELSE None
             second_instance == LatePartSecond(c)
         IN  (IF first_instance # None /\ second_instance # None
                 /\ second_instance \in DOMAIN tasks
              THEN <<Edge(first_instance, second_instance,
                          normalize_relationship_type(c.Relationship), c.Product_Line)>>
              ELSE <<>>)
             \o LatePartEdges(i + 1)

HasEdge(edges, first, second) ==
    \E i \in DOMAIN edges : edges[i].First = first /\ edges[i].Second = second

\* step 4: the inspection links no chain has produced; primaries in the order
\* of their ids
RECURSIVE ResidualQuality(_, _)
ResidualQuality(edges, k) ==
    IF k > Len(IdOrder) THEN edges
    ELSE LET primary_instance == IdOrder[k] IN
         IF primary_instance \notin DOMAIN quality_requirements
            \/ HasEdge(edges, primary_instance, quality_requirements[primary_instance])
         THEN ResidualQuality(edges, k + 1)
         ELSE IF primary_instance \in DOMAIN customer_requirements
         THEN ResidualQuality(
                  edges \o <<Edge(primary_instance, quality_requirements[primary_instance],
                                  FeS, tasks[primary_instance].product),
                             Edge(quality_requirements[primary_instance],
                                  customer_requirements[primary_instance],
                                  FeS, tasks[primary_instance].product)>>, k + 1)
         ELSE ResidualQuality(
                  edges \o <<Edge(primary_instance, quality_requirements[primary_instance],
                                  FeS, tasks[primary_instance].product)>>, k + 1)

RECURSIVE ResidualCustomer(_, _)
ResidualCustomer(edges, k) ==
    IF k > Len(IdOrder) THEN edges
    ELSE LET primary_instance == IdOrder[k] IN
         IF primary_instance \notin DOMAIN customer_requirements
            \/ primary_instance \in DOMAIN quality_requirements
            \/ HasEdge(edges, primary_instance, customer_requirements[primary_instance])
         THEN ResidualCustomer(edges, k + 1)
         ELSE ResidualCustomer(
                  edges \o <<Edge(primary_instance, customer_requirements[primary_instance],
                                  FeS, tasks[primary_instance].product)>>, k + 1)

\* build_dynamic_dependencies (the input holds no rework table, so step 3 adds
\* nothing); the result is memoized in _dynamic_constraints_cache
ResolveDependencies ==
    ResidualCustomer(ResidualQuality(BaselineEdges(1, 1) \o LatePartEdges(1), 1), 1)

build_dynamic_dependencies ==
    IF dynamic_constraints_cache.valid THEN dynamic_constraints_cache.value
    ELSE ResolveDependencies

---------------------------------------------------------------------------
(* Priorities *)

dynamic_constraints == build_dynamic_dependencies

\* self.quality_inspections: inspection id -> primary instance
quality_inspections ==
    [id \in {quality_requirements[x] : x \in DOMAIN quality_requirements} |->
        CHOOSE x \in DOMAIN quality_requirements : quality_requirements[x] = id]

MaxOf(S) == IF S = {} THEN 0 ELSE CHOOSE x \in S : \A y \in S : x >= y

\* calculate_critical_path_length: duration + the longest successor path
RECURSIVE calculate_critical_path_length(_)
calculate_critical_path_length(task) ==
    tasks[task].duration
    + MaxOf({calculate_critical_path_length(dynamic_constraints[i].Second) :
                i \in {j \in DOMAIN dynamic_constraints :
                          /\ dynamic_constraints[j].First = task
                          /\ dynamic_constraints[j].Second \in DOMAIN tasks}})

\* (date - datetime.now()).days
DaysUntil(date) == (date - now) \div DayMinutes

\* the baseline branch of calculate_task_priority, times 10
BaselinePriority(task_instance_id) ==
    LET product == tasks[task_instance_id].product
        days_to_delivery == IF product # None /\ product \in DOMAIN delivery_dates
                            THEN DaysUntil(delivery_dates[product]) ELSE 999
    IN  (100 - days_to_delivery) * 200
        + (10000 - calculate_critical_path_length(task_instance_id)) * 50
        + (1000 - tasks[task_instance_id].duration) * 2

\* calculate_task_priority, times 10, with self.task_schedule = sched
RECURSIVE calculate_task_priority(_, _)
calculate_task_priority(task_instance_id, sched) ==
    IF task_instance_id \in late_part_tasks
    THEN IF task_instance_id \in DOMAIN on_dock_dates
         THEN -30000 + DaysUntil(on_dock_dates[task_instance_id]) * 100
         ELSE -30000
    ELSE IF task_instance_id \in DOMAIN quality_inspections
    THEN IF quality_inspections[task_instance_id] \in DOMAIN sched
         THEN calculate_task_priority(quality_inspections[task_instance_id], sched) - 10
         ELSE -20000
    ELSE BaselinePriority(task_instance_id)

\* get_earliest_start_for_late_part
TruncateToSix(t) == Midnight(t) + 360
get_earliest_start_for_late_part(task_instance_id) ==
    IF task_instance_id \notin DOMAIN on_dock_dates THEN StartDateMinute
    ELSE TruncateToSix(on_dock_dates[task_instance_id] + csv.late_part_delay_minutes)

---------------------------------------------------------------------------
(* validate_dag *)

RECURSIVE Closure(_)
Closure(R) ==
    LET next == R \cup {<<x[1][1], x[2][2]>> : x \in {y \in R \X R : y[1][2] = y[2][1]}}
    IN  IF next = R THEN R ELSE Closure(next)

\* validate_dag: every end of a constraint is an instance, and the graph of the
\* Finish <= Start and Finish = Start edges has no cycle
validate_dag_on(edges) ==
    LET graph == {<<edges[i].First, edges[i].Second>> :
                     i \in {j \in DOMAIN edges : edges[j].Relationship \in {FS, FeS}}}
        all_tasks_in_constraints ==
            {edges[i].First : i \in DOMAIN edges} \cup {edges[i].Second : i \in DOMAIN edges}
    IN  /\ all_tasks_in_constraints \subseteq DOMAIN tasks
        /\ \A e \in Closure(graph) : e[1] # e[2]

---------------------------------------------------------------------------
(* schedule_tasks *)

start_date_hour_late == StartDateMinute + 60
start_date == StartDateMinute

constraints_by_second(task) ==
    SelectSeq(dynamic_constraints, LAMBDA c : c.Second = task)
constraints_by_first(task) ==
    SelectSeq(dynamic_constraints, LAMBDA c : c.First = task)

ReadyIds(heap) == {heap[i][2] : i \in DOMAIN heap}

\* heapq.heappush: the heap is kept as the list of its entries in push order
heappush(heap, priority, task) == Append(heap, <<priority, task>>)

\* tuple order of the entries (priority, id)
EntryLess(a, b) == a[1] < b[1] \/ (a[1] = b[1] /\ IdRank(a[2]) < IdRank(b[2]))

\* index of the entry heapq.heappop returns: a least entry
PopIndex(heap) ==
    CHOOSE i \in DOMAIN heap :
        \A j \in DOMAIN heap : j # i => (EntryLess(heap[i], heap[j])
                                         \/ (heap[i] = heap[j] /\ i < j))

RemoveNothing(seq, i) == seq
RemoveAt(seq, i) == SubSeq(seq, 1, i - 1) \o SubSeq(seq, i + 1, Len(seq))

\* pushes every id of `ids`, in the order of IdOrder
RECURSIVE PushAll(_, _, _)
PushAll(heap, ids, k) ==
    IF k > Len(IdOrder) THEN heap
    ELSE IF IdOrder[k] \in ids
         THEN PushAll(heappush(heap, calculate_task_priority(IdOrder[k], <<>>), IdOrder[k]),
                      ids, k + 1)
         ELSE PushAll(heap, ids, k + 1)

\* "Find initially ready tasks"
BlockingKinds == {FS, FeS, FF}
tasks_with_incoming_constraints ==
    {dynamic_constraints[i].Second : i \in DOMAIN dynamic_constraints}
tasks_with_outgoing_constraints ==
    {dynamic_constraints[i].First : i \in DOMAIN dynamic_constraints}
orphaned_tasks ==
    (DOMAIN tasks \ tasks_with_incoming_constraints) \ tasks_with_outgoing_constraints
tasks_with_only_outgoing ==
    tasks_with_outgoing_constraints \ tasks_with_incoming_constraints
unblocked_incoming ==
    {t \in tasks_with_incoming_constraints :
        \A i \in DOMAIN dynamic_constraints :
            dynamic_constraints[i].Second = t
                => dynamic_constraints[i].Relationship \notin BlockingKinds}

InitialReady ==
    PushAll(PushAll(PushAll(<<>>, orphaned_tasks, 1), tasks_with_only_outgoing, 1),
            unblocked_incoming, 1)

\* the bound one scheduled predecessor puts on the start of a task of `duration`
constraint_time(relationship, first_schedule, duration) ==
    CASE relationship = FS -> first_schedule.end_time
      [] relationship = FeS -> first_schedule.end_time
      [] relationship \in {SS, SeS} -> first_schedule.start_time
      [] relationship = FF -> first_schedule.end_time - duration
      [] relationship = SF -> first_schedule.start_time - duration
      [] OTHER -> first_schedule.end_time

\* the loop over constraints_by_second: <<earliest_start, latest_start_constraint>>,
\* latest_start_constraint = -1 standing for None
RECURSIVE BoundFrom(_, _, _, _, _)
BoundFrom(cs, k, duration, earliest_start, latest_start_constraint) ==
    IF k > Len(cs) THEN <<earliest_start, latest_start_constraint>>
    ELSE IF cs[k].First \in DOMAIN task_schedule
    THEN LET first_schedule == task_schedule[cs[k].First] IN
         BoundFrom(cs, k + 1, duration,
                   Max2(earliest_start,
                        constraint_time(cs[k].Relationship, first_schedule, duration)),
                   IF cs[k].Relationship = SeS THEN first_schedule.start_time
                   ELSE latest_start_constraint)
    ELSE BoundFrom(cs, k + 1, duration, earliest_start, latest_start_constraint)

\* earliest_start of schedule_tasks for one popped instance
EarliestStart(task_instance_id) ==
    LET initial == IF task_instance_id \in late_part_tasks
                   THEN get_earliest_start_for_late_part(task_instance_id)
                   ELSE start_date
        b == BoundFrom(constraints_by_second(task_instance_id), 1,
                       tasks[task_instance_id].duration, initial, -1)
    IN  IF b[2] # -1 THEN b[2] ELSE b[1]

\* "result[0] < earliest_available", earliest_available starting at datetime.max
FirstAvailable(result, best) == ~best.found
EarlierAvailable(result, best) == ~best.found \/ result.start < best.start

\* the customer branch: the first team, in the order of the capacity table, with
\* the strictly earliest slot among the teams of sufficient capacity
RECURSIVE BestCustomerTeam(_, _, _, _, _, _)
BestCustomerTeam(k, best, earliest_start, product, mechanics_needed, duration) ==
    IF k > Len(csv.customer_team_order) THEN best
    ELSE LET team == csv.customer_team_order[k]
             result == get_next_working_time_with_capacity(
                           earliest_start, product, team, mechanics_needed, duration,
                           FALSE, TRUE)
         IN  IF /\ team \in DOMAIN customer_team_capacity
                /\ customer_team_capacity[team] >= mechanics_needed
                /\ result.found
                /\ EarlierAvailable(result, best)
             THEN BestCustomerTeam(k + 1, [found |-> TRUE, start |-> result.start,
                                           shift |-> result.shift, team |-> team],
                                   earliest_start, product, mechanics_needed, duration)
             ELSE BestCustomerTeam(k + 1, best, earliest_start, product,
                                   mechanics_needed, duration)

NoTeam == [found |-> FALSE, start |-> 0, shift |-> None, team |-> None]

\* the quality branch: the team of the inspection, with the recovery through
\* the primary instance; `recovered` is the team written back to task_info
QualityTeamFor(task_instance_id) ==
    LET quality_team == map_mechanic_to_quality_team(tasks[task_instance_id].team) IN
    IF quality_team # None THEN [quality_team |-> quality_team, recovered |-> None]
    ELSE IF task_instance_id \in DOMAIN quality_inspections
            /\ quality_inspections[task_instance_id] \in DOMAIN tasks
    THEN LET primary_team == tasks[quality_inspections[task_instance_id]].team
             q == map_mechanic_to_quality_team(primary_team)
         IN  [quality_team |-> q, recovered |-> IF q # None THEN primary_team ELSE None]
    ELSE [quality_team |-> None, recovered |-> None]

\* What one iteration decides for the popped instance:
\*   kind "noteam": a quality task without a team; "noslot": the search found
\*   nothing; "farfuture": a start after 2030; "placed": a schedule record.
Attempt(task_instance_id) ==
    LET task_info == tasks[task_instance_id]
        duration == task_info.duration
        mechanics_needed == task_info.mechanics_required
        product == task_info.product
        earliest_start == EarliestStart(task_instance_id)
    IN  IF task_info.is_customer
        THEN LET best == BestCustomerTeam(1, NoTeam, earliest_start, product,
                                          mechanics_needed, duration)
             IN  IF ~best.found
                 THEN [kind |-> "noslot", recovered |-> None]
                 ELSE [kind |-> "slot", recovered |-> None, start |-> best.start,
                       shift |-> best.shift, team |-> best.team, team_skill |-> best.team]
        ELSE IF task_info.is_quality
        THEN LET q == QualityTeamFor(task_instance_id) IN
             IF q.quality_team = None
             THEN [kind |-> "noteam", recovered |-> None]
             ELSE LET result == get_next_working_time_with_capacity(
                                    earliest_start, product, q.quality_team,
                                    mechanics_needed, duration, TRUE, FALSE)
                  IN  IF ~result.found
                      THEN [kind |-> "noslot", recovered |-> q.recovered]
                      ELSE [kind |-> "slot", recovered |-> q.recovered,
                            start |-> result.start, shift |-> result.shift,
                            team |-> q.quality_team, team_skill |-> q.quality_team]
        ELSE LET team_for_scheduling == task_info.team_skill
                 base_team == IF BaseTeamOf(team_for_scheduling) # team_for_scheduling
                              THEN BaseTeamOf(team_for_scheduling)
                              ELSE task_info.team
                 result == get_next_working_time_with_capacity(
                               earliest_start, product, team_for_scheduling,
                               mechanics_needed, duration, FALSE, FALSE)
             IN  IF ~result.found
                 THEN [kind |-> "noslot", recovered |-> None]
                 ELSE [kind |-> "slot", recovered |-> None,
                       start |-> result.start, shift |-> result.shift,
                       team |-> base_team, team_skill |-> team_for_scheduling]

\* the schedule record of a placed instance
ScheduleRecord(task_instance_id, a) ==
    [start_time |-> a.start,
     end_time |-> a.start + tasks[task_instance_id].duration,
     team |-> a.team,
     team_skill |-> a.team_skill,
     product |-> tasks[task_instance_id].product,
     duration |-> tasks[task_instance_id].duration,
     mechanics_required |-> tasks[task_instance_id].mechanics_required,
     is_quality |-> tasks[task_instance_id].is_quality,
     is_customer |-> tasks[task_instance_id].is_customer,
     task_type |-> tasks[task_instance_id].task_type,
     shift |-> a.shift]

\* "Add newly ready tasks": the dependents of the instance just placed whose
\* predecessors are all placed and that are not on the heap yet
\* all_satisfied of the push of dependents: every predecessor of `dependent`,
\* over every incoming constraint, has a schedule record
any_satisfied(dependent, sched) ==
    \E i \in DOMAIN dynamic_constraints :
        /\ dynamic_constraints[i].Second = dependent
        /\ dynamic_constraints[i].First \in DOMAIN sched
all_satisfied(dependent, sched) ==
    \A i \in DOMAIN dynamic_constraints :
        dynamic_constraints[i].Second = dependent
            => dynamic_constraints[i].First \in DOMAIN sched

\* "dependent not in [t[1] for t in ready_tasks]"
QueuedAgain(dependent, heap) == TRUE
NotQueued(dependent, heap) == dependent \notin ReadyIds(heap)

RECURSIVE PushDependents(_, _, _, _)
PushDependents(heap, cs, k, sched) ==
    IF k > Len(cs) THEN heap
    ELSE LET dependent == cs[k].Second IN
         IF dependent \in DOMAIN sched \/ dependent \in failed_tasks
         THEN PushDependents(heap, cs, k + 1, sched)
         ELSE IF /\ all_satisfied(dependent, sched)
                 /\ NotQueued(dependent, heap)
         THEN PushDependents(
                  heappush(heap, calculate_task_priority(dependent, sched), dependent),
                  cs, k + 1, sched)
         ELSE PushDependents(heap, cs, k + 1, sched)

---------------------------------------------------------------------------
(* Input files of the model.  A knob record k selects one input file; the   *)
(* families below vary a few knobs around the defaults.                     *)

Day(n) == n * DayMinutes

DefaultShiftHours ==
    [x \in {"1st", "2nd", "3rd"} |->
        CASE x = "1st" -> [start |-> 6 * 60, end |-> 14 * 60 + 30]
          [] x = "2nd" -> [start |-> 14 * 60 + 30, end |-> 23 * 60]
          [] x = "3rd" -> [start |-> 23 * 60, end |-> 6 * 60 + 30]]

MkInput(k) ==
    [products |-> IF k.two THEN <<"P", "Q">> ELSE <<"P">>,
     delivery_dates |-> IF k.two THEN ("P" :> k.delivP) @@ ("Q" :> k.delivQ)
                        ELSE ("P" :> k.delivP),
     product_remaining_ranges |->
        IF k.two THEN ("P" :> <<1, k.endP>>) @@ ("Q" :> <<1, 1>>)
        ELSE ("P" :> <<1, k.endP>>),
     baseline_task_data |->
        (1 :> [duration |-> k.dur1, team |-> "Mechanic Team 1",
               team_skill |-> "Mechanic Team 1", mechanics_required |-> k.hc1])
        @@ (2 :> [duration |-> k.dur2, team |-> BaseTeamOf(k.unit2),
                  team_skill |-> k.unit2, mechanics_required |-> k.hc2]),
     holidays |-> IF k.holP = {} THEN <<>> ELSE ("P" :> k.holP),
     shift_hours |-> DefaultShiftHours,
     team_shifts |->
        ("Mechanic Team 1" :> <<k.shM1>>) @@ ("Mechanic Team 2" :> <<k.shM2>>)
        @@ ("Mechanic Team 1 (Skill 1)" :> <<k.shM1>>),
     quality_team_shifts |->
        ("Quality Team 1" :> <<k.shQ1>>) @@ ("Quality Team 2" :> <<"2nd">>),
     customer_team_shifts |->
        ("Customer Team 1" :> <<k.shC1>>) @@ ("Customer Team 2" :> <<k.shC2>>),
     customer_team_order |-> <<"Customer Team 1", "Customer Team 2">>,
     team_capacity |->
        ("Mechanic Team 1" :> k.capM1) @@ ("Mechanic Team 2" :> k.capM2)
        @@ ("Mechanic Team 1 (Skill 1)" :> k.capM2),
     quality_team_capacity |->
        IF k.qrun THEN ("Quality Team 1" :> k.capQ1) @@ ("Quality Team 2" :> 1)
        ELSE ("Quality Team 2" :> 1),
     quality_keys_at_load |->
        IF k.qload THEN {"Quality Team 1", "Quality Team 2"} ELSE {"Quality Team 2"},
     customer_team_capacity |->
        ("Customer Team 1" :> k.capC1) @@ ("Customer Team 2" :> k.capC2),
     precedence_constraints |->
        (IF k.rel = None THEN <<>>
         ELSE <<[First |-> 1, Second |-> 2, Relationship |-> k.rel]>>)
        \o (IF k.cyc THEN <<[First |-> 2, Second |-> 1, Relationship |-> k.cycRel]>>
            ELSE <<>>),
     quality_rows |->
        IF k.qi THEN <<[primary |-> k.qiPrim, qi_task |-> 501, headcount |-> k.qiHc,
                        duration |-> 30]>>
        ELSE <<>>,
     customer_rows |->
        IF k.cc THEN <<[primary |-> 1, cc_task |-> "CC_601", headcount |-> 1,
                        duration |-> 30]>>
        ELSE <<>>,
     late_part_constraints |->
        (IF k.lp THEN <<[First |-> "LP_1001", Second |-> k.lpSecond,
                         Relationship |-> k.lpRel, On_Dock_Date |-> k.lpDock,
                         Product_Line |-> "P"]>>
         ELSE <<>>)
        \o (IF k.lp2 THEN <<[First |-> "LP_1000", Second |-> k.lpSecond,
                              Relationship |-> k.lpRel, On_Dock_Date |-> k.lpDock2,
                              Product_Line |-> "P"]>>
            ELSE <<>>),
     late_part_rows |->
        (IF k.lp THEN <<[Task |-> "LP_1001", duration |-> 60,
                         team |-> "Mechanic Team 1", mechanics_required |-> 1]>>
         ELSE <<>>)
        \o (IF k.lp2 THEN <<[Task |-> "LP_1000", duration |-> 60,
                              team |-> "Mechanic Team 1", mechanics_required |-> 1]>>
            ELSE <<>>),
     late_part_delay_minutes |-> k.delay]

K0 ==
    [dur1 |-> 60, dur2 |-> 60, hc1 |-> 1, hc2 |-> 1, unit2 |-> "Mechanic Team 1",
     rel |-> None, cyc |-> FALSE, cycRel |-> FS, qi |-> FALSE, qiPrim |-> 1, qiHc |-> 1,
     qrun |-> TRUE, cc |-> FALSE, two |-> FALSE, endP |-> 2,
     lp |-> FALSE, lpRel |-> FS, lpDock |-> 0, lpSecond |-> 1,
     lp2 |-> FALSE, lpDock2 |-> 0,
     capM1 |-> 1, capM2 |-> 1, capQ1 |-> 1, capC1 |-> 1, capC2 |-> 1,
     shM1 |-> "1st", shM2 |-> "1st", shQ1 |-> "1st", shC1 |-> "1st", shC2 |-> "1st",
     holP |-> {}, delivP |-> Day(10), delivQ |-> Day(10), delay |-> DayMinutes,
     qload |-> TRUE]

Shifts == {"1st", "2nd", "3rd"}

\* two templates of one product under each relationship, shift and holiday set
RelationKnobs ==
    {[K0 EXCEPT !.rel = r, !.dur1 = d1, !.dur2 = d2, !.unit2 = u, !.shM2 = s,
                !.holP = h, !.hc1 = m] :
        r \in Relationships, d1 \in {60, 510}, d2 \in {20, 60, 240},
        u \in {"Mechanic Team 1", "Mechanic Team 1 (Skill 1)", "Mechanic Team 2"},
        s \in Shifts, h \in {{}, {0}, {0, 3}}, m \in 1..MaxMechanics}

\* a primary with a quality and/or a customer inspection, in one or two products
InspectionKnobs ==
    {[K0 EXCEPT !.qi = x[1], !.cc = x[2], !.rel = r, !.two = t, !.shQ1 = sq,
                !.shC1 = sc, !.capC1 = cc1, !.dur1 = d1, !.qload = ql,
                !.qiHc = qh, !.capQ1 = cq, !.qiPrim = qp,
                !.unit2 = "Mechanic Team 2"] :
        x \in {<<TRUE, FALSE>>, <<FALSE, TRUE>>, <<TRUE, TRUE>>},
        r \in {None, FS}, t \in BOOLEAN, sq \in {"1st", "2nd"},
        sc \in {"1st", "2nd"}, cc1 \in {0, 1}, d1 \in {60, 480},
        ql \in BOOLEAN, qh \in 1..MaxMechanics, cq \in 1..MaxCapacity,
        qp \in {1, 2}}

\* a late part feeding template 1 or 2
LatePartKnobs ==
    {[K0 EXCEPT !.lp = TRUE, !.lpRel = lr, !.lpDock = od, !.lpSecond = sec,
                !.delay = dl, !.rel = r, !.dur2 = d2] :
        lr \in {FS, SeS, SS},
        od \in {Day(0), Day(3) + 14 * 60, Day(4), FarFutureMinute - DayMinutes},
        sec \in {1, 2}, dl \in {DayMinutes, DayMinutes \div 2},
        r \in {None, FS, SeS}, d2 \in {60, 45}}

\* one template in two products contending for Mechanic Team 1
ContentionKnobs ==
    {[K0 EXCEPT !.two = TRUE, !.endP = 1, !.delivP = dp, !.delivQ = dq,
                !.dur1 = d1, !.capM1 = c, !.hc1 = m, !.shM1 = s] :
        dp \in {Day(5), Day(10)}, dq \in {Day(10), Day(20)},
        d1 \in {20, 60, 300, 420, 421, 510, 511},
        c \in 1..MaxCapacity, m \in 1..MaxMechanics, s \in Shifts}

\* a quality team that is in no capacity table, and a cycle of blocking
\* constraints (a cycle through a non-blocking constraint makes the seeding's
\* critical-path recursion overflow the stack, before any task is placed)
OddKnobs ==
    {[K0 EXCEPT !.qi = TRUE, !.qload = FALSE, !.qrun = FALSE, !.rel = r] :
        r \in {None, FS}}
    \cup {[K0 EXCEPT !.rel = r, !.cyc = TRUE, !.lp = l] : r \in {FS, FeS}, l \in BOOLEAN}

\* two unrelated templates whose durations sit at the length of a shift window
BoundaryKnobs ==
    {[K0 EXCEPT !.dur1 = d1, !.dur2 = d2, !.shM1 = s1, !.shM2 = s2,
                !.unit2 = "Mechanic Team 2"] :
        d1 \in {420, 510}, d2 \in {421, 510, 511}, s1 \in Shifts, s2 \in Shifts}

\* one template of one product: the duration against the shift window, the
\* headcount against the capacity, the delivery date against the start datum
SingleKnobs ==
    {[K0 EXCEPT !.endP = 1, !.dur1 = d1, !.shM1 = s, !.holP = h, !.delivP = dp,
                !.hc1 = m, !.capM1 = c] :
        d1 \in {120, 510, 540}, s \in Shifts, h \in {{}, {0}},
        dp \in {Day(10), Day(0), Day(0) - DayMinutes},
        m \in 1..MaxMechanics, c \in 1..MaxCapacity}

\* a customer inspection per product and two customer teams, with or without
\* the capacity for it, on the same or on different shifts
CustomerKnobs ==
    {[K0 EXCEPT !.cc = TRUE, !.two = t, !.capC1 = c1, !.capC2 = c2, !.shC1 = s1,
                !.shC2 = s2, !.unit2 = "Mechanic Team 2"] :
        t \in BOOLEAN, c1 \in {0, 1}, c2 \in {0, 1},
        s1 \in {"1st", "2nd"}, s2 \in {"1st", "2nd"}}

Knobs ==
    RelationKnobs \cup InspectionKnobs \cup LatePartKnobs \cup ContentionKnobs
    \cup BoundaryKnobs \cup OddKnobs \cup SingleKnobs \cup CustomerKnobs

Inputs == {MkInput(k) : k \in Knobs}

\* values of datetime.now(): the start datum, and a week before it
Nows == {StartDateMinute, StartDateMinute - 7 * DayMinutes + 1}

---------------------------------------------------------------------------
(* The state machine *)

NoRun == [kind |-> "none", task |-> None]

\* the object after __init__ and load_data_from_csv on one of `inputs`; nothing
\* has called schedule_tasks yet
NoDriver == [mode |-> "none"]

InitOn(inputs) ==
    \E p \in inputs :
        /\ csv = LoadTables(p)
        /\ tasks = LoadTasks(p)
        /\ team_capacity = p.team_capacity
        /\ quality_team_capacity = p.quality_team_capacity
        /\ customer_team_capacity = p.customer_team_capacity
        /\ now \in Nows
        /\ silent_mode \in BOOLEAN
        /\ task_schedule = <<>>
        /\ schedule_order = <<>>
        /\ ready_tasks = <<>>
        /\ task_retry_counts = [t \in DOMAIN tasks |-> 0]
        /\ failed_tasks = {}
        /\ scheduled_count = 0
        /\ iteration_count = 0
        /\ dynamic_constraints_cache = [valid |-> FALSE, value |-> <<>>]
        /\ last = NoRun
        /\ pc = "loaded"
        /\ driver = NoDriver

Init == InitOn(Inputs)

total_tasks == Cardinality(DOMAIN tasks)
max_iterations == total_tasks * 10

\* schedule_tasks up to the main loop: clear the schedule, validate the graph
\* unless silent, resolve the constraints, seed the heap
Begin ==
    /\ pc = "loaded"
    /\ task_schedule' = <<>>
    /\ schedule_order' = <<>>
    /\ dynamic_constraints_cache' = [valid |-> TRUE, value |-> build_dynamic_dependencies]
    /\ task_retry_counts' = [t \in DOMAIN tasks |-> 0]
    /\ failed_tasks' = {}
    /\ scheduled_count' = 0
    /\ iteration_count' = 0
    /\ last' = NoRun
    /\ IF ~silent_mode /\ ~validate_dag_on(build_dynamic_dependencies)
       THEN /\ pc' = "error"
            /\ ready_tasks' = <<>>
       ELSE /\ pc' = "loop"
            /\ ready_tasks' = InitialReady
    /\ UNCHANGED <<csv, tasks, team_capacity, quality_team_capacity,
                   customer_team_capacity, now, silent_mode, driver>>

LoopCondition ==
    /\ ready_tasks # <<>>
    /\ scheduled_count < total_tasks
    /\ iteration_count < max_iterations

BumpTwice(counts, task) == [counts EXCEPT ![task] = @ + 2]
Bump(counts, task) == [counts EXCEPT ![task] = @ + 1]

\* the body of one iteration, for the popped entry (priority, task_instance_id),
\* the heap left by the pop and the outcome `a` of the slot search
Process(priority, task_instance_id, heap, a, retried) ==
    /\ iteration_count' = iteration_count + 1
    /\ IF task_retry_counts[task_instance_id] >= MaxRetries
       THEN /\ failed_tasks' = failed_tasks \cup {task_instance_id}
            /\ ready_tasks' = heap
            /\ last' = [kind |-> "skipped", task |-> task_instance_id]
            /\ UNCHANGED <<tasks, task_schedule, schedule_order,
                           task_retry_counts, scheduled_count>>
       ELSE IF a.kind = "noteam"
       THEN /\ task_retry_counts' = retried
            /\ ready_tasks' = IF retried[task_instance_id] < MaxRetries
                              THEN heappush(heap, priority + 1, task_instance_id)
                              ELSE heap
            /\ last' = [kind |-> "noteam", task |-> task_instance_id]
            /\ UNCHANGED <<tasks, task_schedule, schedule_order,
                           failed_tasks, scheduled_count>>
       ELSE IF a.kind = "noslot"
       THEN /\ task_retry_counts' = retried
            /\ tasks' = IF a.recovered # None
                        THEN [tasks EXCEPT ![task_instance_id].team = a.recovered]
                        ELSE tasks
            /\ ready_tasks' = IF retried[task_instance_id] < MaxRetries
                              THEN heappush(heap, priority + 1, task_instance_id)
                              ELSE heap
            /\ failed_tasks' = IF retried[task_instance_id] < MaxRetries
                               THEN failed_tasks
                               ELSE failed_tasks \cup {task_instance_id}
            /\ last' = [kind |-> "noslot", task |-> task_instance_id]
            /\ UNCHANGED <<task_schedule, schedule_order, scheduled_count>>
       ELSE IF a.start >= FarFutureMinute
       THEN /\ failed_tasks' = failed_tasks \cup {task_instance_id}
            /\ tasks' = IF a.recovered # None
                        THEN [tasks EXCEPT ![task_instance_id].team = a.recovered]
                        ELSE tasks
            /\ ready_tasks' = heap
            /\ last' = [kind |-> "farfuture", task |-> task_instance_id]
            /\ UNCHANGED <<task_schedule, schedule_order, task_retry_counts,
                           scheduled_count>>
       ELSE LET sched == task_schedule
                         @@ (task_instance_id :> ScheduleRecord(task_instance_id, a))
            IN  /\ task_schedule' = sched
                /\ schedule_order' = Append(schedule_order, task_instance_id)
                /\ tasks' = IF a.recovered # None
                            THEN [tasks EXCEPT ![task_instance_id].team = a.recovered]
                            ELSE tasks
                /\ scheduled_count' = scheduled_count + 1
                /\ ready_tasks' = PushDependents(
                       heap, constraints_by_first(task_instance_id), 1, sched)
                /\ last' = [kind |-> "placed", task |-> task_instance_id]
                /\ UNCHANGED <<task_retry_counts, failed_tasks>>

\* one iteration of the main loop
Iterate ==
    /\ pc = "loop"
    /\ LoopCondition
    /\ LET i == PopIndex(ready_tasks) IN
       Process(ready_tasks[i][1], ready_tasks[i][2], RemoveAt(ready_tasks, i),
               Attempt(ready_tasks[i][2]), Bump(task_retry_counts, ready_tasks[i][2]))
    /\ UNCHANGED <<csv, team_capacity, quality_team_capacity, customer_team_capacity,
                   now, silent_mode, dynamic_constraints_cache, pc, driver>>

\* (a loop exit that raises when instances are left unscheduled)
FinishRaising ==
    /\ pc = "loop"
    /\ ~LoopCondition
    /\ pc' = IF scheduled_count < total_tasks THEN "error" ELSE "done"
    /\ UNCHANGED <<csv, tasks, team_capacity, quality_team_capacity,
                   customer_team_capacity, now, task_schedule, ready_tasks,
                   task_retry_counts, failed_tasks, scheduled_count, iteration_count,
                   dynamic_constraints_cache, silent_mode, schedule_order, last,
                   driver>>

\* the loop condition fails: schedule_tasks returns
Finish ==
    /\ pc = "loop"
    /\ ~LoopCondition
    /\ pc' = "done"
    /\ UNCHANGED <<csv, tasks, team_capacity, quality_team_capacity,
                   customer_team_capacity, now, task_schedule, ready_tasks,
                   task_retry_counts, failed_tasks, scheduled_count, iteration_count,
                   dynamic_constraints_cache, silent_mode, schedule_order, last,
                   driver>>

Next == Begin \/ Iterate \/ Finish

Spec == Init /\ [][Next]_vars

\* schedule_tasks runs in one thread from its first statement to its return: a
\* step that can be taken is taken.  This is WF_vars(Next) with
\* ENABLED <<Next>>_vars written out: a step is possible exactly as long as the
\* run has neither returned nor raised.
FairSpec ==
    Spec /\ ([]<>(pc \in {"done", "error"}) \/ []<><<Next>>_vars)

---------------------------------------------------------------------------
(* A second call of schedule_tasks on the same object *)

\* values of datetime.now() at the second call
Clock == Nows \cup {StartDateMinute + 9 * 60}

\* two late parts feeding one template; two products on one team; an
\* inspection whose team is resolved at load or recovered in the run
TwiceKnobs ==
    {[K0 EXCEPT !.lp = TRUE, !.lp2 = TRUE, !.lpDock = a, !.lpDock2 = b,
                !.lpSecond = sec] :
        a \in {Day(0), Day(3)}, b \in {Day(0) + 14 * 60, Day(3) + 14 * 60},
        sec \in {1, 2}}
    \cup ContentionKnobs
    \cup {[K0 EXCEPT !.qi = TRUE, !.cc = c, !.qload = ql, !.qiPrim = qp,
                     !.unit2 = "Mechanic Team 2"] :
            c \in BOOLEAN, ql \in BOOLEAN, qp \in {1, 2}}

TwiceInit == InitOn({MkInput(k) : k \in TwiceKnobs})

\* the caller keeps the records of the first run and calls schedule_tasks again
\* with the same argument; the tables, the capacities and the resolved
\* constraints are those the first run left in the object
Rerun ==
    /\ pc = "done"
    /\ driver.mode = "none"
    /\ driver' = [mode |-> "rerun", schedule |-> task_schedule,
                  unplaced |-> DOMAIN tasks \ DOMAIN task_schedule, clock |-> now]
    /\ now' \in {n \in Clock : n >= now}
    /\ pc' = "loaded"
    /\ UNCHANGED <<csv, tasks, team_capacity, quality_team_capacity,
                   customer_team_capacity, task_schedule, ready_tasks,
                   task_retry_counts, failed_tasks, scheduled_count, iteration_count,
                   dynamic_constraints_cache, silent_mode, schedule_order, last>>

TwiceNext == Begin \/ Iterate \/ Finish \/ Rerun

TwiceSpec == TwiceInit /\ [][TwiceNext]_vars

---------------------------------------------------------------------------
(* Properties of the schedule *)

Placed == DOMAIN task_schedule

\* check_constraint_satisfied: is_satisfied for two schedule records
check_constraint_satisfied(first_schedule, second_schedule, relationship) ==
    CASE relationship = FS -> first_schedule.end_time <= second_schedule.start_time
      [] relationship = FeS ->
            Abs(first_schedule.end_time - second_schedule.start_time) * 60 < 60
      [] relationship = FF -> first_schedule.end_time <= second_schedule.end_time
      [] relationship = SS -> first_schedule.start_time <= second_schedule.start_time
      [] relationship = SeS ->
            Abs(first_schedule.start_time - second_schedule.start_time) * 60 < 60
      [] relationship = SF -> first_schedule.start_time <= second_schedule.end_time
      [] OTHER -> first_schedule.end_time <= second_schedule.start_time

\* the window of `shift` that belongs to `day`: the 3rd shift runs from 23:00 of
\* the day to 06:00 of the next
shift_window_start(shift, day) ==
    IF shift = "3rd" THEN Day(day) + 23 * 60 ELSE Day(day) + shift_hours[shift].start
shift_window_end(shift, day) ==
    IF shift = "3rd" THEN Day(day + 1) + 6 * 60 ELSE Day(day) + shift_hours[shift].end
ShiftLength(shift) == shift_window_end(shift, 0) - shift_window_start(shift, 0)

\* the shift list of the team a record is assigned to
OwnShiftList(schedule) ==
    IF schedule.is_customer THEN Get(customer_team_shifts, schedule.team_skill, <<"1st">>)
    ELSE IF schedule.is_quality
    THEN Get(quality_team_shifts, schedule.team_skill, <<"1st">>)
    ELSE Get(team_shifts, schedule.team_skill, <<"1st">>)

\* C1: after a run, every resolved constraint whose two ends are placed holds on
\* the recorded times (Finish <= Start, Finish <= Finish, Start <= Start and
\* Start <= Finish exactly, Finish = Start and Start = Start within 60 s).
C1_ConstraintsHold ==
    pc = "done" =>
        \A i \in DOMAIN dynamic_constraints :
            LET c == dynamic_constraints[i] IN
            (c.First \in Placed /\ c.Second \in Placed)
                => check_constraint_satisfied(task_schedule[c.First],
                                              task_schedule[c.Second], c.Relationship)

\* the headcount a team has at work at one instant
LoadAt(team, instant) ==
    SumHeadcount({i \in Placed : /\ task_schedule[i].team_skill = team
                                 /\ task_schedule[i].start_time <= instant
                                 /\ instant < task_schedule[i].end_time},
                 task_schedule)

\* C2: in every state of a run, for every team and every instant, the headcounts
\* of the records of that team whose interval holds the instant sum to at most
\* the team's capacity.  (The load of a team only rises at the start of one of
\* its records, so the starts are the instants to look at.)
C2_CapacityRespected ==
    \A t \in Placed :
        LET schedule == task_schedule[t] IN
        LoadAt(schedule.team_skill, schedule.start_time)
            <= CapacityFor(schedule.team_skill, schedule.is_quality, schedule.is_customer)

\* two records of one team overlap and fill the team's capacity
C2_Witness ==
    \E t \in Placed, u \in Placed :
        /\ t # u
        /\ task_schedule[t].team_skill = task_schedule[u].team_skill
        /\ task_schedule[u].start_time <= task_schedule[t].start_time
        /\ task_schedule[t].start_time < task_schedule[u].end_time
        /\ LoadAt(task_schedule[t].team_skill, task_schedule[t].start_time)
             = CapacityFor(task_schedule[t].team_skill, task_schedule[t].is_quality,
                           task_schedule[t].is_customer)

\* C3: every record lies inside one shift window of its team's own shift list,
\* and that window belongs to a working day of the record's product.
C3_InsideWorkingShift ==
    \A t \in Placed :
        LET schedule == task_schedule[t] IN
        \E shift \in Range(OwnShiftList(schedule)) :
            \E day \in (DayOf(schedule.start_time) - 1)..DayOf(schedule.start_time) :
                /\ is_working_day(day, schedule.product)
                /\ shift_window_start(shift, day) <= schedule.start_time
                /\ schedule.end_time <= shift_window_end(shift, day)

\* C4: every placed late part starts no earlier than its on-dock date plus the
\* configured delay.
C4_LatePartAfterDock ==
    \A t \in Placed :
        (t \in late_part_tasks /\ t \in DOMAIN on_dock_dates)
            => task_schedule[t].start_time
                 >= on_dock_dates[t] + csv.late_part_delay_minutes

\* C5: in a chain primary -> quality inspection -> customer inspection whose
\* members are all placed, each successor starts within 60 s of its
\* predecessor's end.
C5_ChainZeroGap ==
    \A a \in Placed :
        (/\ a \in DOMAIN quality_requirements
         /\ a \in DOMAIN customer_requirements
         /\ quality_requirements[a] \in Placed
         /\ customer_requirements[a] \in Placed)
            => LET b == task_schedule[quality_requirements[a]]
                   c == task_schedule[customer_requirements[a]]
               IN  /\ Abs(b.start_time - task_schedule[a].end_time) * 60 < 60
                   /\ Abs(c.start_time - b.end_time) * 60 < 60

\* C6: every placed quality inspection is on 'Quality Team N', N the number of
\* the base team of its primary instance, also when its team was unresolved at
\* load time and recovered during scheduling.
C6_QualityTeamOfPrimary ==
    \A t \in Placed :
        task_schedule[t].is_quality
            => LET primary == tasks[t].primary_task IN
               /\ primary \in DOMAIN tasks
               /\ TeamNumber(tasks[primary].team) # 0
               /\ task_schedule[t].team_skill
                    = QualityTeamName(TeamNumber(tasks[primary].team))
               /\ task_schedule[t].team = task_schedule[t].team_skill

\* a placed inspection whose team came from the recovery through its primary:
\* the recovery leaves the primary's mechanic team in the task's team field
C6_Witness ==
    \E t \in Placed :
        /\ task_schedule[t].is_quality
        /\ tasks[t].team = tasks[tasks[t].primary_task].team
        /\ task_schedule[t].team_skill \in DOMAIN quality_team_capacity

C8_ExactFitOnly ==
    /\ \A team \in DOMAIN team_capacity, day \in 0..MaxProbeDay :
          LET shift == ShiftsFor(team, FALSE, FALSE)[1]
              ws == shift_window_start(shift, day)
              we == shift_window_end(shift, day)
          IN  (/\ is_working_day(day, "P")
               /\ team_capacity[team] >= 1
               /\ ConflictingIds(team, ws, we, FALSE, FALSE) = {})
                  => /\ get_next_working_time_with_capacity(
                            ws, "P", team, 1, we - ws, FALSE, FALSE)
                          = [found |-> TRUE, start |-> ws, shift |-> shift]
                     /\ ~SlotAt(0, shift, ws, "P", team, 1, (we - ws) + 1,
                                FALSE, FALSE).found
                     /\ ~SlotAt(1, shift, ws - DayMinutes, "P", team, 1, (we - ws) + 1,
                                FALSE, FALSE).found
    /\ \A t \in Placed :
          LET schedule == task_schedule[t] IN
          \A shift \in Range(OwnShiftList(schedule)) :
              \A day \in (DayOf(schedule.start_time) - 1)..DayOf(schedule.start_time) :
                  (/\ shift_window_start(shift, day) <= schedule.start_time
                   /\ schedule.start_time < shift_window_end(shift, day))
                      => schedule.duration <= ShiftLength(shift)

\* one task as long as its team's shift window sits at a window start, and a
\* task one minute longer than its team's window has failed
C8_Witness ==
    /\ \E t \in Placed :
          /\ task_schedule[t].duration = ShiftLength(task_schedule[t].shift)
          /\ task_schedule[t].start_time
               = shift_window_start(task_schedule[t].shift,
                                    DayOf(task_schedule[t].start_time))
    /\ \E f \in failed_tasks :
          tasks[f].duration = ShiftLength(ShiftsFor(tasks[f].team_skill, FALSE, FALSE)[1]) + 1

\* the first working day of a product from `day` on
RECURSIVE NextWorkingDay(_, _)
NextWorkingDay(day, product) ==
    IF is_working_day(day, product) THEN day ELSE NextWorkingDay(day + 1, product)

\* C9: an instance due on a holiday of its product is placed at the shift start
\* of the next working day, and no record starts in a shift window of a holiday
\* of its product.
C9_HolidayAdvance ==
    /\ \A t \in Placed :
          LET schedule == task_schedule[t] IN
          \A shift \in Range(OwnShiftList(schedule)) :
              \A day \in (DayOf(schedule.start_time) - 1)..DayOf(schedule.start_time) :
                  (/\ schedule.product \in DOMAIN holidays
                   /\ day \in holidays[schedule.product])
                      => ~(/\ shift_window_start(shift, day) <= schedule.start_time
                           /\ schedule.start_time < shift_window_end(shift, day))
    /\ (schedule_order # <<>> /\ schedule_order[1] \notin late_part_tasks)
          => LET schedule == task_schedule[schedule_order[1]] IN
             schedule.start_time
               = shift_window_start(schedule.shift,
                                    NextWorkingDay(DayOf(start_date), schedule.product))

\* C10: of two instances without predecessors, alike in duration, headcount and
\* critical path, on one team that holds only one of them at a time, the one of
\* the product delivered earlier is placed first and the other starts when the
\* first ends, if it still fits the shift.
C10_EarlierDeliveryFirst ==
    \A t \in Placed, u \in Placed :
        (/\ pc = "done"
         /\ dynamic_constraints = <<>>
         /\ DOMAIN tasks = {t, u}
         /\ tasks[t].duration = tasks[u].duration
         /\ tasks[t].mechanics_required = tasks[u].mechanics_required
         /\ tasks[t].team_skill = tasks[u].team_skill
         /\ team_capacity[tasks[t].team_skill] < 2 * tasks[t].mechanics_required
         /\ delivery_dates[tasks[t].product] < delivery_dates[tasks[u].product])
            => /\ schedule_order = <<t, u>>
               /\ (task_schedule[t].end_time + tasks[u].duration
                     <= task_schedule[t].start_time + ShiftLength(task_schedule[t].shift))
                      => task_schedule[u].start_time = task_schedule[t].end_time

---------------------------------------------------------------------------
(* Metrics *)

MinOf(S) == CHOOSE x \in S : \A y \in S : x <= y

\* calculate_makespan: working days (of any product) from the day of the
\* earliest start to the day of the latest end; 999999 when an instance is
\* unscheduled
calculate_makespan ==
    IF task_schedule = <<>> THEN 0
    ELSE IF Cardinality(DOMAIN task_schedule) < Cardinality(DOMAIN tasks) THEN 999999
    ELSE LET start_time == MinOf({task_schedule[t].start_time : t \in DOMAIN task_schedule})
             end_time == MaxOf({task_schedule[t].end_time : t \in DOMAIN task_schedule})
         IN  Cardinality({d \in DayOf(start_time)..DayOf(end_time) :
                             \E product \in DOMAIN delivery_dates :
                                 is_working_day(d, product)})

\* calculate_lateness_metrics: per product, the last end against the delivery
\* date in whole days (timedelta.days rounds down)
calculate_lateness_metrics ==
    [product \in DOMAIN delivery_dates |->
        LET product_tasks == {t \in DOMAIN task_schedule :
                                 task_schedule[t].product = product}
        IN  IF product_tasks # {}
            THEN LET last_task_end == MaxOf({task_schedule[t].end_time : t \in product_tasks})
                     lateness_days == (last_task_end - delivery_dates[product]) \div DayMinutes
                 IN  [projected_completion |-> last_task_end,
                      lateness_days |-> lateness_days,
                      on_time |-> lateness_days <= 0,
                      total_tasks |-> Cardinality(product_tasks)]
            ELSE [projected_completion |-> None,
                  lateness_days |-> 999999,
                  on_time |-> FALSE,
                  total_tasks |-> 0]]

---------------------------------------------------------------------------
(* C11 *)

\* the instance has no predecessor, its team works the first shift, its duration
\* fits in that window, and the other records of the team leave it room at T0
FreeAtStart(t) ==
    LET team == tasks[t].team_skill
        task_end == StartDateMinute + tasks[t].duration
    IN  /\ ~tasks[t].is_quality /\ ~tasks[t].is_customer
        /\ constraints_by_second(t) = <<>>
        /\ "1st" \in Range(ShiftsFor(team, FALSE, FALSE))
        /\ shift_window_start("1st", 0) = StartDateMinute
        /\ tasks[t].duration <= ShiftLength("1st")
        /\ SumHeadcount(ConflictingIds(team, StartDateMinute, task_end, FALSE, FALSE) \ {t},
                        task_schedule)
               + tasks[t].mechanics_required <= CapacityFor(team, FALSE, FALSE)

PlacedAtStart(t) ==
    /\ t \in Placed => /\ task_schedule[t].start_time = StartDateMinute
                       /\ task_schedule[t].end_time = StartDateMinute + tasks[t].duration
    /\ pc = "done" => t \in Placed

\* C11 as stated: an instance with no predecessors, free capacity and a fitting
\* duration is placed at T0 and ends at T0 + duration; a one-instance input
\* then has a makespan of 1 working day and its product is on time.
C11_FreeInstanceAtStart ==
    pc \in {"loop", "done"} =>
        \A t \in DOMAIN tasks :
            FreeAtStart(t) =>
                /\ PlacedAtStart(t)
                /\ (pc = "done" /\ DOMAIN tasks = {t}) =>
                       /\ calculate_makespan = 1
                       /\ calculate_lateness_metrics[tasks[t].product].on_time

\* C11, amended: the same for an instance that is no late part and whose
\* product works on day 0; the product of a one-instance input is on time when
\* the end is less than one day after the delivery date.
C11_FreeInstanceAtWorkingStart ==
    pc \in {"loop", "done"} =>
        \A t \in DOMAIN tasks :
            (FreeAtStart(t) /\ t \notin late_part_tasks
                /\ is_working_day(0, tasks[t].product)) =>
                /\ PlacedAtStart(t)
                /\ (pc = "done" /\ DOMAIN tasks = {t}) =>
                       /\ calculate_makespan = 1
                       /\ calculate_lateness_metrics[tasks[t].product].on_time
                             = (StartDateMinute + tasks[t].duration
                                  < delivery_dates[tasks[t].product] + DayMinutes)

\* a finished one-instance run whose instance was free at T0, on time
C11_Witness ==
    /\ pc = "done"
    /\ \E t \in DOMAIN tasks :
          /\ DOMAIN tasks = {t}
          /\ FreeAtStart(t) /\ is_working_day(0, tasks[t].product)
          /\ t \in Placed
          /\ tasks[t].duration = 120
          /\ calculate_lateness_metrics[tasks[t].product].on_time

---------------------------------------------------------------------------
(* C12 *)

\* the shift windows of the team the instance is scheduled on (for a customer
\* inspection: of every customer team) are all shorter than its duration
ExceedsEveryShift(t) ==
    LET teams == IF tasks[t].is_customer THEN Range(csv.customer_team_order)
                 ELSE IF tasks[t].is_quality
                 THEN {QualityTeamFor(t).quality_team} \ {None}
                 ELSE {tasks[t].team_skill}
    IN  \A team \in teams :
            \A k \in DOMAIN ShiftsFor(team, tasks[t].is_quality, tasks[t].is_customer) :
                tasks[t].duration
                    > ShiftLength(ShiftsFor(team, tasks[t].is_quality, tasks[t].is_customer)[k])

---------------------------------------------------------------------------
(* C13 *)

\* some constraint into t has a first instance that is not placed
HasUnplacedPredecessor(t) ==
    \E i \in DOMAIN dynamic_constraints :
        /\ dynamic_constraints[i].Second = t
        /\ dynamic_constraints[i].First \notin Placed

\* the step was an iteration whose slot search found nothing
NoSlotStep == pc = "loop" /\ iteration_count' # iteration_count /\ last'.kind = "noslot"

---------------------------------------------------------------------------
(* C14 *)

---------------------------------------------------------------------------
(* C15 *)

---------------------------------------------------------------------------
(* C16 *)

\* C16: in every run, silent or not, a cycle of Finish <= Start / Finish = Start
\* constraints or a constraint on an undefined instance aborts the run with an
\* error before any instance is placed.
C16_DagErrorsFatal ==
    (pc # "loaded" /\ ~validate_dag_on(dynamic_constraints)) =>
        (pc = "error" /\ Placed = {})

---------------------------------------------------------------------------
(* C17 *)

\* C17: a second run of schedule_tasks on the same instances, constraints,
\* calendars and capacities leaves the same schedule records and the same set
\* of unplaced instances as the first.
C17_SameScheduleTwice ==
    (pc = "done" /\ driver.mode = "rerun") =>
        /\ task_schedule = driver.schedule
        /\ DOMAIN tasks \ Placed = driver.unplaced

---------------------------------------------------------------------------
(* scenario_2_minimize_makespan and its callers *)

\* self._original_team_capacity, self._original_quality_capacity
original_team_capacity == csv.original_team_capacity
original_quality_capacity == csv.original_quality_capacity

\* float('inf') for a makespan: above every value calculate_makespan returns
Infinity == 1000000000

\* "for team in self.team_capacity: self.team_capacity[team] = value"
SetUniform(capacity, value) == [team \in DOMAIN capacity |-> value]

\* "for team, capacity in values.items(): capacity_map[team] = capacity"
UpdateAll(capacity_map, values) ==
    [team \in DOMAIN capacity_map \cup DOMAIN values |->
        IF team \in DOMAIN values THEN values[team] ELSE capacity_map[team]]

\* the max_mechanics and max_quality arguments (min_mechanics = min_quality = 1)
S2Arguments ==
    {[max_mechanics |-> m, max_quality |-> q] : m \in {2, 3}, q \in {1, 2, 3}}

S2MaxIterations == 20

\* the locals of scenario_2_minimize_makespan before its loop
S2Locals(a) ==
    [mode |-> "s2",
     before_team |-> team_capacity, before_quality |-> quality_team_capacity,
     mech_low |-> 1, mech_high |-> a.max_mechanics,
     qual_low |-> 1, qual_high |-> a.max_quality,
     iterations |-> 0, mech_capacity |-> 0, qual_capacity |-> 0,
     best_makespan |-> Infinity, has_best |-> FALSE,
     best_config |-> [mechanics |-> 0, quality |-> 0],
     best_metrics |-> <<>>]

\* the head of the loop body: the midpoints become the uniform capacities, the
\* schedule is cleared and generate_global_priority_list is called silently
S2Trial(d) ==
    LET mech_capacity == (d.mech_low + d.mech_high) \div 2
        qual_capacity == (d.qual_low + d.qual_high) \div 2
    IN  /\ driver' = [d EXCEPT !.iterations = @ + 1,
                               !.mech_capacity = mech_capacity,
                               !.qual_capacity = qual_capacity]
        /\ team_capacity' = SetUniform(team_capacity, mech_capacity)
        /\ quality_team_capacity' = SetUniform(quality_team_capacity, qual_capacity)
        /\ task_schedule' = <<>>
        /\ schedule_order' = <<>>
        /\ silent_mode' = TRUE
        /\ pc' = "loaded"

\* the exit of the function: the load-time capacities are written back
S2Return(d) ==
    /\ driver' = [d EXCEPT !.mode = "s2_returned"]
    /\ team_capacity' = UpdateAll(team_capacity, original_team_capacity)
    /\ quality_team_capacity' =
            UpdateAll(quality_team_capacity, original_quality_capacity)
    /\ UNCHANGED <<task_schedule, schedule_order, silent_mode, pc>>

\* strict comparison against the best makespan so far
S2Improves(makespan, best_makespan) == makespan < best_makespan

\* the rest of the loop body, once the run has returned or raised
S2Narrow(d) ==
    IF pc = "done" /\ Cardinality(DOMAIN task_schedule) = Cardinality(DOMAIN tasks)
    THEN LET makespan == calculate_makespan
             b == IF S2Improves(makespan, d.best_makespan)
                  THEN [d EXCEPT !.best_makespan = makespan, !.has_best = TRUE,
                                 !.best_config = [mechanics |-> d.mech_capacity,
                                                  quality |-> d.qual_capacity],
                                 !.best_metrics = calculate_lateness_metrics]
                  ELSE d
         IN  [b EXCEPT !.mech_high = d.mech_capacity - 1,
                       !.qual_high = d.qual_capacity - 1]
    ELSE [d EXCEPT !.mech_low = d.mech_capacity + 1,
                   !.qual_low = d.qual_capacity + 1]

S2Continue(d) ==
    IF d.mech_low > d.mech_high \/ d.qual_low > d.qual_high
       \/ ~(d.iterations < S2MaxIterations)
    THEN S2Return(d)
    ELSE S2Trial(d)

\* scenario_2_minimize_makespan is called on the loaded object
S2Start ==
    /\ pc = "loaded"
    /\ driver.mode = "none"
    /\ \E a \in S2Arguments : S2Trial(S2Locals(a))
    /\ UNCHANGED <<csv, tasks, customer_team_capacity, now, ready_tasks,
                   task_retry_counts, failed_tasks, scheduled_count, iteration_count,
                   dynamic_constraints_cache, last>>

\* one trial has ended: narrow the search, then try again or return
S2Step ==
    /\ pc \in {"done", "error"}
    /\ driver.mode = "s2"
    /\ S2Continue(S2Narrow(driver))
    /\ UNCHANGED <<csv, tasks, customer_team_capacity, now, ready_tasks,
                   task_retry_counts, failed_tasks, scheduled_count, iteration_count,
                   dynamic_constraints_cache, last>>

\* the caller applies a uniform pair and schedules with it
RunUniform(mode, mechanics, quality) ==
    /\ driver' = [driver EXCEPT !.mode = mode, !.mech_capacity = mechanics,
                                !.qual_capacity = quality]
    /\ team_capacity' = SetUniform(team_capacity, mechanics)
    /\ quality_team_capacity' = SetUniform(quality_team_capacity, quality)
    /\ task_schedule' = <<>>
    /\ schedule_order' = <<>>
    /\ pc' = "loaded"
    /\ UNCHANGED <<csv, tasks, customer_team_capacity, now, ready_tasks,
                   task_retry_counts, failed_tasks, scheduled_count, iteration_count,
                   dynamic_constraints_cache, silent_mode, last>>

\* the caller of scenario 2 applies the pair it returned and schedules again
ApplyS2Result ==
    /\ driver.mode = "s2_returned"
    /\ driver.has_best
    /\ RunUniform("s2_applied", driver.best_config.mechanics, driver.best_config.quality)

\* the same call with one member of the returned pair lowered by one, inside
\* the search range
S2Probe ==
    /\ driver.mode = "s2_returned"
    /\ driver.has_best
    /\ \/ /\ driver.best_config.mechanics - 1 >= 1
          /\ RunUniform("s2_probe", driver.best_config.mechanics - 1,
                        driver.best_config.quality)
       \/ /\ driver.best_config.quality - 1 >= 1
          /\ RunUniform("s2_probe", driver.best_config.mechanics,
                        driver.best_config.quality - 1)

---------------------------------------------------------------------------
(* scenario_3_simulated_annealing *)

Min2(a, b) == IF a <= b THEN a ELSE b

\* 'Quality' in team
HasQualityInName(team) == team \in {QualityTeamName(n) : n \in 1..3}

\* sum(capacity_map.values())
RECURSIVE SumValues(_)
SumValues(f) ==
    IF DOMAIN f = {} THEN 0
    ELSE LET k == CHOOSE k \in DOMAIN f : TRUE
         IN  f[k] + SumValues([x \in DOMAIN f \ {k} |-> f[x]])

calculate_minimum_team_requirements ==
    LET by_skill(team) ==
            MaxOf({tasks[t].mechanics_required :
                      t \in {u \in DOMAIN tasks : tasks[u].team_skill = team}})
        by_inspection(team) ==
            MaxOf({tasks[q].mechanics_required :
                      q \in {u \in DOMAIN quality_inspections \cap DOMAIN tasks :
                                tasks[u].team = team}})
    IN  [team \in DOMAIN team_capacity \cup DOMAIN quality_team_capacity |->
            Max2(Max2(0, by_skill(team)), by_inspection(team))]

initialize_moderate_capacity ==
    LET min_requirements == calculate_minimum_team_requirements IN
    [mechanic |-> [team \in DOMAIN original_team_capacity |->
                      Max2(Get(min_requirements, team, 2) + 2, 5)],
     quality |-> [team \in DOMAIN original_quality_capacity |->
                      Max2(Get(min_requirements, team, 1) + 1, 3)]]

\* evaluate_delivery_performance, the entries the annealing reads or returns
evaluate_delivery_performance ==
    LET lateness_metrics == calculate_lateness_metrics
        lateness_values ==
            {lateness_metrics[p].lateness_days :
                p \in {q \in DOMAIN lateness_metrics :
                          /\ lateness_metrics[q].total_tasks # 0
                          /\ lateness_metrics[q].lateness_days < 999999}}
    IN  [max_lateness |-> IF lateness_values # {} THEN MaxOf(lateness_values)
                          ELSE 999999,
         total_workforce |-> SumValues(team_capacity) + SumValues(quality_team_capacity),
         scheduled_tasks |-> Cardinality(DOMAIN task_schedule),
         total_tasks |-> Cardinality(DOMAIN tasks),
         lateness_by_product |-> [p \in DOMAIN lateness_metrics |->
                                     lateness_metrics[p].lateness_days],
         makespan |-> calculate_makespan]

\* current_score = distance ** 2 * 1000 + rest, kept as the pair: the square
\* of a distance near 999999 does not fit a 32-bit integer
SAScore(metrics, target_earliness) ==
    LET distance == Abs(metrics.max_lateness - target_earliness) IN
    [distance |-> distance,
     rest |-> (IF metrics.scheduled_tasks < metrics.total_tasks
               THEN (metrics.total_tasks - metrics.scheduled_tasks) * 5000 ELSE 0)
              + (IF distance <= 2 THEN metrics.total_workforce * 5 ELSE 0)]

\* a < b for two scores.  Beyond a distance of 1000 the squares differ by more
\* than 1000 * 1000, which is above every value of `rest`, so the distances decide
ScoreLess(a, b) ==
    IF a.distance <= 1000 /\ b.distance <= 1000
    THEN a.distance * a.distance * 1000 + a.rest < b.distance * b.distance * 1000 + b.rest
    ELSE IF a.distance = b.distance THEN a.rest < b.rest
    ELSE a.distance < b.distance

fix_unscheduled_tasks(config) ==
    LET unscheduled == {t \in DOMAIN tasks : /\ t \notin DOMAIN task_schedule
                                             /\ tasks[t].team_skill # None}
        count(team) == Cardinality({t \in unscheduled : tasks[t].team_skill = team})
        teams == {tasks[t].team_skill : t \in unscheduled}
    IN  [mechanic |-> [team \in DOMAIN config.mechanic
                                \cup {x \in teams : ~HasQualityInName(x)} |->
                          Get(config.mechanic, team, 0) + count(team)],
         quality |-> [team \in DOMAIN config.quality
                               \cup {x \in teams : HasQualityInName(x)} |->
                          Get(config.quality, team, 0) + count(team)]]

\* random.sample(list(config['mechanic'].keys()), min(amount, len(...)))
Samples(config, amount) ==
    {X \in SUBSET DOMAIN config.mechanic :
        Cardinality(X) = Min2(amount, Cardinality(DOMAIN config.mechanic))}

reduce_random_teams(config, amount) ==
    {[config EXCEPT !.mechanic =
          [team \in DOMAIN config.mechanic |->
              IF team \in X /\ config.mechanic[team] > 2
              THEN config.mechanic[team] - 1 ELSE config.mechanic[team]]] :
        X \in Samples(config, amount)}

increase_random_teams(config, amount) ==
    {[config EXCEPT !.mechanic =
          [team \in DOMAIN config.mechanic |->
              IF team \in X THEN config.mechanic[team] + 1
              ELSE config.mechanic[team]]] :
        X \in Samples(config, amount)}

\* calculate_team_utilization: the work of the records of `team`, headcount
\* times duration
RECURSIVE SumWork(_)
SumWork(ids) ==
    IF ids = {} THEN 0
    ELSE LET i == CHOOSE i \in ids : TRUE
         IN  task_schedule[i].duration * task_schedule[i].mechanics_required
             + SumWork(ids \ {i})

\* "u < 50" for the utilization of `team`: work / (capacity * 8 * 60 * makespan)
\* in percent; a makespan of a thousand days or more leaves every team below
LowUtilization(team, makespan) ==
    LET capacity == IF Get(team_capacity, team, 0) # 0 THEN Get(team_capacity, team, 0)
                    ELSE Get(quality_team_capacity, team, 0)
        total_work_minutes ==
            SumWork({i \in DOMAIN task_schedule : task_schedule[i].team_skill = team})
    IN  \/ capacity = 0
        \/ makespan >= 1000
        \/ total_work_minutes * 2 < capacity * 8 * 60 * makespan

\* fine_tune_workforce: random.choice picks one of the teams
\* calculate_team_utilizations reports below 50 percent, if there is one
fine_tune_workforce(config) ==
    LET team_utils ==
            IF task_schedule = <<>> \/ calculate_makespan = 0 THEN {}
            ELSE {t \in DOMAIN team_capacity : team_capacity[t] > 0}
                 \cup {t \in DOMAIN quality_team_capacity : quality_team_capacity[t] > 0}
        low_util_teams == {t \in team_utils : LowUtilization(t, calculate_makespan)}
    IN  IF low_util_teams = {} THEN {config}
        ELSE {IF HasQualityInName(team) /\ Get(config.quality, team, 0) > 1
              THEN [config EXCEPT !.quality[team] = @ - 1]
              ELSE IF team \in DOMAIN config.mechanic /\ config.mechanic[team] > 2
              THEN [config EXCEPT !.mechanic[team] = @ - 1]
              ELSE config : team \in low_util_teams}

increase_all_capacity(config, amount) ==
    [mechanic |-> [team \in DOMAIN config.mechanic |-> config.mechanic[team] + amount],
     quality |-> [team \in DOMAIN config.quality |-> config.quality[team] + amount]]

\* "Make neighbor solution"
Neighbours(metrics, target_earliness, config) ==
    LET distance == Abs(metrics.max_lateness - target_earliness) IN
    IF metrics.scheduled_tasks < metrics.total_tasks
    THEN {fix_unscheduled_tasks(config)}
    ELSE IF metrics.max_lateness < target_earliness
    THEN reduce_random_teams(config, Min2(5, distance))
    ELSE IF metrics.max_lateness > target_earliness
    THEN increase_random_teams(config, Min2(5, distance + 1))
    ELSE fine_tune_workforce(config)

\* the target_earliness and max_iterations arguments
SAIterations == 3
SAArguments ==
    {[target_earliness |-> t, max_iterations |-> SAIterations] : t \in {-1, 0}}

\* the iteration after which a hit of the target ends the loop
RefinementIterations == 50

\* the locals of scenario_3_simulated_annealing before its loop; `evaluated`
\* keeps every vector the loop has scored, with the score and the metrics
SALocals(a) ==
    [mode |-> "sa",
     before_team |-> team_capacity, before_quality |-> quality_team_capacity,
     target_earliness |-> a.target_earliness, max_iterations |-> a.max_iterations,
     iteration |-> 0, stop |-> FALSE,
     current_config |-> initialize_moderate_capacity,
     best_config |-> initialize_moderate_capacity,
     has_best |-> FALSE, best_score |-> [distance |-> 0, rest |-> 0],
     best_metrics |-> <<>>,
     evaluated |-> {}]

\* the head of the loop body: apply_capacity_configuration, clear the
\* schedule, generate_global_priority_list silently
SATrial(d) ==
    /\ driver' = d
    /\ team_capacity' = UpdateAll(team_capacity, d.current_config.mechanic)
    /\ quality_team_capacity' = UpdateAll(quality_team_capacity, d.current_config.quality)
    /\ task_schedule' = <<>>
    /\ schedule_order' = <<>>
    /\ silent_mode' = TRUE
    /\ pc' = "loaded"

\* the exit of the function: the load-time capacities are written back
SAReturn(d) ==
    /\ driver' = [d EXCEPT !.mode = "sa_returned"]
    /\ team_capacity' = UpdateAll(team_capacity, original_team_capacity)
    /\ quality_team_capacity' = UpdateAll(quality_team_capacity, original_quality_capacity)
    /\ UNCHANGED <<task_schedule, schedule_order, silent_mode, pc>>

\* "if current_score < best_score", best_score starting at float('inf')
SAImprovesAlways(d, current_score) == TRUE
SAImproves(d, current_score) == ~d.has_best \/ ScoreLess(current_score, d.best_score)

\* the locals after the rest of the loop body, for every outcome of
\* random.random() and of the random neighbour move.  The temperature and the
\* no-improvement counter act only through the acceptance probability, which
\* is 1 when the scores are equal
SAOutcomes(d) ==
    IF pc = "error"
    THEN {[d EXCEPT !.current_config = increase_all_capacity(@, 2), !.iteration = @ + 1]}
    ELSE LET metrics == evaluate_delivery_performance
             current_score == SAScore(metrics, d.target_earliness)
             seen == [config |-> d.current_config, score |-> current_score,
                      metrics |-> metrics]
         IN  IF SAImproves(d, current_score)
             THEN IF current_score.distance = 0 /\ d.iteration > RefinementIterations
                  THEN {[d EXCEPT !.best_score = current_score,
                                  !.best_config = d.current_config,
                                  !.best_metrics = metrics, !.has_best = TRUE,
                                  !.evaluated = @ \cup {seen}, !.stop = TRUE]}
                  ELSE {[d EXCEPT !.best_score = current_score,
                                  !.best_config = d.current_config,
                                  !.best_metrics = metrics, !.has_best = TRUE,
                                  !.evaluated = @ \cup {seen},
                                  !.current_config = n, !.iteration = @ + 1] :
                           n \in Neighbours(metrics, d.target_earliness, d.current_config)}
             ELSE {[d EXCEPT !.evaluated = @ \cup {seen},
                             !.current_config = n, !.iteration = @ + 1] :
                      n \in Neighbours(metrics, d.target_earliness, d.current_config)
                            \cup (IF ScoreLess(d.best_score, current_score)
                                  THEN Neighbours(metrics, d.target_earliness,
                                                  d.best_config)
                                  ELSE {})}

SAContinue(d) ==
    IF d.stop \/ ~(d.iteration < d.max_iterations)
    THEN SAReturn(d)
    ELSE SATrial(d)

\* scenario_3_simulated_annealing is called on the loaded object, or by the
\* caller that has applied the pair of scenario 2 and scheduled with it
SAStart ==
    /\ driver.mode \in {"none", "s2_applied"}
    /\ pc = (IF driver.mode = "none" THEN "loaded" ELSE "done")
    /\ \E a \in SAArguments : SATrial(SALocals(a))
    /\ UNCHANGED <<csv, tasks, customer_team_capacity, now, ready_tasks,
                   task_retry_counts, failed_tasks, scheduled_count, iteration_count,
                   dynamic_constraints_cache, last>>

\* one evaluation has ended: score it, move, then evaluate again or return
SAStep ==
    /\ pc \in {"done", "error"}
    /\ driver.mode = "sa"
    /\ \E d \in SAOutcomes(driver) : SAContinue(d)
    /\ UNCHANGED <<csv, tasks, customer_team_capacity, now, ready_tasks,
                   task_retry_counts, failed_tasks, scheduled_count, iteration_count,
                   dynamic_constraints_cache, last>>

---------------------------------------------------------------------------
(* The scenario drivers on a loaded object *)

ScenarioKnobs ==
    {[K0 EXCEPT !.two = TRUE, !.endP = 1, !.delivP = dp, !.delivQ = Day(10),
                !.dur1 = d1, !.hc1 = m] :
        dp \in {Day(0), Day(1), Day(10)}, d1 \in {60, 300, 540},
        m \in 1..MaxMechanics}
    \cup {[K0 EXCEPT !.qi = q, !.cc = c, !.capC1 = cc1, !.delivP = dp,
                     !.dur1 = d1, !.unit2 = "Mechanic Team 2"] :
            q \in BOOLEAN, c \in BOOLEAN, cc1 \in {0, 1}, dp \in {Day(0), Day(1)},
            d1 \in {60, 540}}

ScenarioInit == InitOn({MkInput(k) : k \in ScenarioKnobs})

ScenarioNext ==
    \/ Begin
    \/ Iterate
    \/ Finish
    \/ S2Start
    \/ S2Step
    \/ ApplyS2Result
    \/ S2Probe
    \/ SAStart
    \/ SAStep

ScenarioSpec == ScenarioInit /\ [][ScenarioNext]_vars

---------------------------------------------------------------------------
(* C18 *)

\* C18: once scenario 2 or the annealing of scenario 3 has returned, the
\* mechanic and the quality capacity maps are the maps of the moment just
\* before the scenario started: the same team keys, the same value per key.
C18_CapacitiesAsBefore ==
    driver.mode \in {"s2_returned", "sa_returned"}
        => /\ team_capacity = driver.before_team
           /\ quality_team_capacity = driver.before_quality

---------------------------------------------------------------------------
(* C19 *)

\* C19: the pair scenario 2 returns places every instance, and it is minimal:
\* with the mechanics or the quality value lowered by one, the scheduler
\* leaves an instance unplaced.
C19_S2Minimal ==
    /\ (driver.mode = "s2_applied" /\ pc = "done") => Placed = DOMAIN tasks
    /\ (driver.mode = "s2_probe" /\ pc = "done") => Placed # DOMAIN tasks

---------------------------------------------------------------------------
(* C20 *)

\* C20: the annealing of scenario 3 returns the capacity vector with the
\* lowest score among all the vectors it scored during the run, together with
\* the metrics measured for exactly that vector; and the best score it keeps
\* never increases from one iteration to the next.
C20_BestObservedReturned ==
    /\ []((driver.mode = "sa_returned" /\ driver.evaluated # {}) =>
            \E e \in driver.evaluated :
                /\ e.config = driver.best_config
                /\ e.metrics = driver.best_metrics
                /\ e.score = driver.best_score
                /\ \A f \in driver.evaluated : ~ScoreLess(f.score, e.score))
    /\ [][(driver.mode = "sa" /\ driver.has_best)
            => ~ScoreLess(driver.best_score, driver'.best_score)]_vars

\* the annealing has returned after scoring a vector that is worse than the
\* one it returns and a vector other than the one it returns
C20_Witness ==
    /\ driver.mode = "sa_returned"
    /\ \E f \in driver.evaluated : ScoreLess(driver.best_score, f.score)
    /\ \E g \in driver.evaluated : g.config # driver.best_config

---------------------------------------------------------------------------
(* C21 *)

\* C21: calculate_makespan returns the sentinel 999999 in every state in
\* which at least one instance of self.tasks has no schedule record, however
\* many records exist.
C21_SentinelWhenUnscheduled ==
    (DOMAIN tasks \ DOMAIN task_schedule # {}) => calculate_makespan = 999999

---------------------------------------------------------------------------
(* export_scenario_with_capacities (src/app.py) *)

MAX_TASKS_FOR_DASHBOARD == 1000

\* seq[:n]
SliceOneMore(seq, n) == SubSeq(seq, 1, Min2(n + 1, Len(seq)))
Slice(seq, n) == SubSeq(seq, 1, Min2(n, Len(seq)))

\* the two sort keys of the snapshot: x.get('global_priority', 999) of a
\* priority item, x['startTime'] of a listed task
KeyOf(x, by) == IF by = "global_priority" THEN x.global_priority ELSE x.startTime

\* sorted(items, key=...) for integer keys, stable: the items of each key in
\* their order in `items`, the keys ascending from lo to hi
RECURSIVE Buckets(_, _, _, _)
Buckets(items, by, lo, hi) ==
    IF lo > hi THEN <<>>
    ELSE IF lo = hi
    THEN LET Hit(x) == KeyOf(x, by) = lo IN SelectSeq(items, Hit)
    ELSE LET mid == (lo + hi) \div 2
         IN  Buckets(items, by, lo, mid) \o Buckets(items, by, mid + 1, hi)

Sorted(items, by) ==
    IF items = <<>> THEN <<>>
    ELSE LET keys == {KeyOf(items[i], by) : i \in DOMAIN items}
         IN  Buckets(items, by, MinOf(keys), MaxOf(keys))

\* the dictionary the snapshot lists for a placed instance, the fields the
\* order and the counts depend on
ExportedTask(task_instance_id, priority) ==
    [taskId |-> task_instance_id, priority |-> priority,
     startTime |-> task_schedule[task_instance_id].start_time]

\* the branch that reads the priority list: the first 1000 items by
\* global_priority, of which the ones with a schedule record are listed
TasksFromPriorityList(global_priority_list) ==
    LET sorted_priority_items ==
            Slice(Sorted(global_priority_list, "global_priority"),
                  MAX_TASKS_FOR_DASHBOARD)
        Listed(priority_item) == priority_item.task_instance_id \in DOMAIN task_schedule
        kept == SelectSeq(sorted_priority_items, Listed)
    IN  [i \in DOMAIN kept |->
            ExportedTask(kept[i].task_instance_id, kept[i].global_priority)]

\* the fallback branch: every schedule record, in the key order of the dict,
\* with priority 999, sorted by start time, the first 1000 of them
AllTasksOfSchedule ==
    [i \in DOMAIN schedule_order |-> ExportedTask(schedule_order[i], 999)]

\* the entries 'tasks', 'totalTasks', 'displayedTasks' and 'truncated' of the
\* snapshot
export_scenario_with_capacities(global_priority_list) ==
    LET use_list == global_priority_list # <<>>
        tasks_out == IF use_list THEN TasksFromPriorityList(global_priority_list)
                     ELSE Slice(Sorted(AllTasksOfSchedule, "startTime"),
                                MAX_TASKS_FOR_DASHBOARD)
        total_tasks_available == IF use_list THEN Len(global_priority_list)
                                 ELSE Len(AllTasksOfSchedule)
    IN  [tasks |-> tasks_out,
         totalTasks |-> IF total_tasks_available > 0 THEN total_tasks_available
                        ELSE Cardinality(DOMAIN task_schedule),
         displayedTasks |-> Len(tasks_out),
         truncated |-> total_tasks_available > MAX_TASKS_FOR_DASHBOARD]

\* A scheduler that has placed n numbered instances, and the priority list
\* generate_global_priority_list has left for them: global_priority is the
\* position in the list
ExportSizes == (0..6) \cup {MAX_TASKS_FOR_DASHBOARD, MAX_TASKS_FOR_DASHBOARD + 1}

PlacedRecord(i) ==
    [start_time |-> StartDateMinute + 15 * (i % 3),
     end_time |-> StartDateMinute + 15 * (i % 3) + 15,
     shift |-> "1st", team |-> "Mechanic Team 1", team_skill |-> "Mechanic Team 1",
     mechanics_required |-> 1, duration |-> 15, is_quality |-> FALSE,
     is_customer |-> FALSE, product |-> "P", task_type |-> "Production"]

PriorityListOf(n, reversed) ==
    [k \in 1..n |-> [task_instance_id |-> IF reversed THEN n + 1 - k ELSE k,
                     global_priority |-> k]]

ExportInit ==
    \E n \in ExportSizes, reversed \in BOOLEAN, listed \in BOOLEAN :
    \E gone \in {{}, {1}, {n}, {1, n}} :
        /\ gone \subseteq 1..n
        /\ listed \/ gone = {}
        /\ csv = LoadTables(MkInput(K0))
        /\ tasks = [i \in 1..n |->
                       [duration |-> 15, team |-> "Mechanic Team 1",
                        team_skill |-> "Mechanic Team 1", mechanics_required |-> 1,
                        is_quality |-> FALSE, is_customer |-> FALSE,
                        task_type |-> "Production", primary_task |-> None,
                        product |-> "P"]]
        /\ team_capacity = MkInput(K0).team_capacity
        /\ quality_team_capacity = MkInput(K0).quality_team_capacity
        /\ customer_team_capacity = MkInput(K0).customer_team_capacity
        /\ now = StartDateMinute
        /\ silent_mode = TRUE
        /\ task_schedule = [i \in (1..n) \ gone |-> PlacedRecord(i)]
        /\ schedule_order = SelectSeq([i \in 1..n |-> IF reversed THEN n + 1 - i ELSE i],
                                      LAMBDA i : i \notin gone)
        /\ ready_tasks = <<>>
        /\ task_retry_counts = [t \in 1..n |-> 0]
        /\ failed_tasks = {}
        /\ scheduled_count = n
        /\ iteration_count = n
        /\ dynamic_constraints_cache = [valid |-> TRUE, value |-> <<>>]
        /\ last = NoRun
        /\ pc = "done"
        /\ driver = [mode |-> "listed",
                     global_priority_list |-> IF listed THEN PriorityListOf(n, reversed)
                                              ELSE <<>>]

Export ==
    /\ driver.mode = "listed"
    /\ driver' = [driver EXCEPT !.mode = "exported"] @@
                 [snapshot |-> export_scenario_with_capacities(driver.global_priority_list)]
    /\ UNCHANGED <<csv, tasks, team_capacity, quality_team_capacity,
                   customer_team_capacity, now, task_schedule, ready_tasks,
                   task_retry_counts, failed_tasks, scheduled_count, iteration_count,
                   dynamic_constraints_cache, silent_mode, schedule_order, last, pc>>

ExportNext == Export

ExportSpec == ExportInit /\ [][ExportNext]_vars

---------------------------------------------------------------------------
(* C22 *)

\* what the snapshot had to choose from: the priority list when there is
\* one, else the schedule records
TasksAvailable ==
    IF driver.global_priority_list # <<>> THEN Len(driver.global_priority_list)
    ELSE Cardinality(DOMAIN task_schedule)

\* C22: the snapshot never lists more than 1000 tasks, lists them in ascending
\* priority order, reports displayedTasks equal to the length of the tasks
\* array, and sets truncated exactly when more than 1000 tasks were available.
C22_SnapshotCapped ==
    driver.mode = "exported" =>
        LET snapshot == driver.snapshot IN
        /\ Len(snapshot.tasks) <= 1000
        /\ \A i \in 1..(Len(snapshot.tasks) - 1) :
               snapshot.tasks[i].priority <= snapshot.tasks[i + 1].priority
        /\ snapshot.displayedTasks = Len(snapshot.tasks)
        /\ snapshot.truncated <=> (TasksAvailable > 1000)

\* a snapshot of 1001 available tasks: truncated, 1000 listed
C22_Witness ==
    /\ driver.mode = "exported"
    /\ driver.snapshot.truncated
    /\ Len(driver.snapshot.tasks) = 1000
    /\ TasksAvailable = 1001

---------------------------------------------------------------------------
(* The precedence bound of a placement *)

\* C23: for every resolved Finish <= Start constraint a -> b whose two ends are
\* placed, a ends no later than b starts, whatever other incoming constraints
\* b has and whether or not b is a late part.
C23_FinishBeforeStart ==
    \A i \in DOMAIN dynamic_constraints :
        LET c == dynamic_constraints[i] IN
        (c.Relationship = FS /\ c.First \in Placed /\ c.Second \in Placed)
            => task_schedule[c.First].end_time <= task_schedule[c.Second].start_time

---------------------------------------------------------------------------
(* The ready heap and the predecessors *)

\* the predecessors of an instance over every incoming constraint
Predecessors(t) ==
    {dynamic_constraints[i].First :
        i \in {j \in DOMAIN dynamic_constraints : dynamic_constraints[j].Second = t}}

\* an instance with an incoming Finish <= Start or Finish = Start constraint
GatedByFinish(t) ==
    \E i \in DOMAIN dynamic_constraints :
        /\ dynamic_constraints[i].Second = t
        /\ dynamic_constraints[i].Relationship \in {FS, FeS}

\* position of a placed instance in the order of placement
PlacementIndex(t) == CHOOSE i \in DOMAIN schedule_order : schedule_order[i] = t

\* C24: an instance outside the initial seed is on the ready heap only when all
\* its predecessors, over every incoming constraint, are placed; an instance
\* with an incoming Finish <= Start or Finish = Start constraint is placed only
\* after every one of its predecessors, hence never if one is never placed.
C24_ReadyAfterPredecessors ==
    pc \in {"loop", "done"} =>
        /\ \A t \in ReadyIds(ready_tasks) \ ReadyIds(InitialReady) :
               Predecessors(t) \subseteq Placed
        /\ \A t \in Placed :
               GatedByFinish(t) =>
                   \A p \in Predecessors(t) :
                       p \in Placed /\ PlacementIndex(p) < PlacementIndex(t)

\* a finished run that placed an instance with a Finish <= Start or
\* Finish = Start predecessor and a second predecessor, after both
C24_Witness ==
    /\ pc = "done"
    /\ \E t \in Placed :
           /\ GatedByFinish(t)
           /\ Cardinality(Predecessors(t)) >= 2
           /\ t \notin ReadyIds(InitialReady)

\* the seed described for the ready heap: the orphans, the instances with only
\* outgoing constraints, and the instances whose incoming constraints are all
\* Start = Start, Start <= Finish or Finish <= Finish
DescribedSeed ==
    orphaned_tasks \cup tasks_with_only_outgoing
    \cup {t \in tasks_with_incoming_constraints :
            \A i \in DOMAIN dynamic_constraints :
                dynamic_constraints[i].Second = t
                    => dynamic_constraints[i].Relationship \in {SeS, SF, FF}}

\* C25: when the main loop is entered, the ready heap holds exactly the orphans,
\* the instances with only outgoing constraints and the instances whose incoming
\* constraints are all Start = Start, Start <= Finish or Finish <= Finish; an
\* instance with an incoming Finish <= Start, Finish = Start or Start <= Start
\* constraint is not on it.
C25_SeedAsDescribed ==
    (pc = "loop" /\ iteration_count = 0) => ReadyIds(ready_tasks) = DescribedSeed

\* C26: of the entries of the ready heap with the least priority, the one that
\* was pushed first is the one the next pop returns: no entry of the same
\* priority as the popped entry was pushed before it.
C26_TiesInInsertionOrder ==
    (pc = "loop" /\ LoopCondition) =>
        LET i == PopIndex(ready_tasks) IN
        \A j \in 1..(i - 1) : ready_tasks[j][1] # ready_tasks[i][1]

---------------------------------------------------------------------------
(* The team of a customer inspection *)

\* the customer teams whose capacity covers the headcount of instance t
EligibleCustomerTeams(t) ==
    {team \in DOMAIN customer_team_capacity :
        customer_team_capacity[team] >= tasks[t].mechanics_required}

\* the earliest feasible start customer team `team` offers to instance t
CustomerOffer(t, team) ==
    get_next_working_time_with_capacity(
        EarliestStart(t), tasks[t].product, team, tasks[t].mechanics_required,
        tasks[t].duration, FALSE, TRUE)

\* the iteration that is about to run attempts a placement of instance t
AttemptsNow(t) ==
    /\ pc = "loop"
    /\ LoopCondition
    /\ ready_tasks[PopIndex(ready_tasks)][2] = t
    /\ task_retry_counts[t] < MaxRetries

\* C27: an attempt on a customer inspection that places it gives it a customer
\* team of sufficient capacity at that team's earliest feasible start, and no
\* customer team of sufficient capacity offers a strictly earlier start; when no
\* such team has a slot the attempt is a placement failure: no record, one more
\* retry.
C27_EarliestCustomerTeam ==
    [][\A t \in DOMAIN tasks :
          (AttemptsNow(t) /\ tasks[t].is_customer) =>
              IF \E team \in EligibleCustomerTeams(t) : CustomerOffer(t, team).found
              THEN /\ last'.kind \in {"placed", "farfuture"}
                   /\ t \in DOMAIN task_schedule' =>
                          LET chosen == task_schedule'[t].team IN
                          /\ chosen \in EligibleCustomerTeams(t)
                          /\ CustomerOffer(t, chosen).found
                          /\ task_schedule'[t].start_time = CustomerOffer(t, chosen).start
                          /\ \A team \in EligibleCustomerTeams(t) :
                                 CustomerOffer(t, team).found
                                     => CustomerOffer(t, team).start
                                            >= task_schedule'[t].start_time
              ELSE /\ last'.kind = "noslot"
                   /\ t \notin DOMAIN task_schedule'
                   /\ task_retry_counts'[t] = task_retry_counts[t] + 1]_vars

\* a customer inspection was just placed on the second customer team although
\* the first one has the capacity for it
C27_Witness ==
    /\ pc = "loop"
    /\ last.kind = "placed"
    /\ tasks[last.task].is_customer
    /\ task_schedule[last.task].team = "Customer Team 2"
    /\ "Customer Team 1" \in EligibleCustomerTeams(last.task)

---------------------------------------------------------------------------
(* The third shift after midnight *)

\* the instants before 06:00 of a day and the durations the search is probed with
EarlyMinutes == {0, 1, 120, 300, 345}
ProbeDurations == {15, 60, 360}

\* C28: for a mechanic team on the 3rd shift and a search called with an instant
\* before 06:00 of day D, the window from 23:00 of day D-1 to 06:00 of day D is
\* still active: a task that ends by 06:00 when started at that instant rounded
\* up to the quarter hour, with the capacity free, is placed there.
C28_ThirdShiftTail ==
    \A team \in DOMAIN team_capacity, D \in 0..MaxProbeDay :
        \A minute \in EarlyMinutes, duration \in ProbeDurations :
            LET not_before == Day(D) + minute
                start == RoundUp15(not_before)
                result == get_next_working_time_with_capacity(
                              not_before, "P", team, 1, duration, FALSE, FALSE)
            IN  (/\ ShiftsFor(team, FALSE, FALSE) = <<"3rd">>
                 /\ start + duration <= Day(D) + 6 * 60
                 /\ EnoughCapacity(CapacityFor(team, FALSE, FALSE),
                        SumHeadcount(ConflictingIds(team, start, start + duration,
                                                    FALSE, FALSE), task_schedule),
                        1))
                    => result.found /\ result.start = start

---------------------------------------------------------------------------
(* The chain a template constraint resolves to *)

\* template constraints of every relationship, with and without the two
\* inspections of either template, in one or two products
ChainKnobs ==
    {[K0 EXCEPT !.rel = r, !.qi = q, !.cc = c, !.qiPrim = qp, !.two = t,
                !.unit2 = "Mechanic Team 2"] :
        r \in Relationships, q \in BOOLEAN, c \in BOOLEAN, qp \in {1, 2},
        t \in BOOLEAN}

ChainInit == InitOn({MkInput(k) : k \in ChainKnobs})

ChainSpec == ChainInit /\ [][Next]_vars

\* the inspections of a primary instance, None when it has none
InspectionOf(requirements, primary) ==
    IF primary \in DOMAIN requirements THEN requirements[primary] ELSE None

\* the edges of the resolved list that are equal to e
Occurrences(e) == {i \in DOMAIN dynamic_constraints : dynamic_constraints[i] = e}

\* the resolved edges that leave one of the instances of `firsts`
EdgesLeaving(firsts) ==
    {dynamic_constraints[i] :
        i \in {j \in DOMAIN dynamic_constraints : dynamic_constraints[j].First \in firsts}}

\* C29: for each template constraint t1 -> t2 and each product whose range holds
\* both, the resolved list holds, once each, the edges of the chain the
\* inspections of t1 select, and no other edge leaves t1 or its inspections:
\* P_t1 -F=S-> QI -F=S-> CC -rel-> P_t2 with both, P_t1 -F=S-> QI -rel-> P_t2 with
\* a quality inspection only, P_t1 -F=S-> CC -rel-> P_t2 with a customer
\* inspection only, P_t1 -rel-> P_t2 with none.
C29_ChainByInspections ==
    \A ci \in DOMAIN precedence_constraints, pi \in DOMAIN csv.products :
        LET product == csv.products[pi]
            t1 == task_instance_map(product, precedence_constraints[ci].First)
            t2 == task_instance_map(product, precedence_constraints[ci].Second)
            rel == normalize_relationship_type(precedence_constraints[ci].Relationship)
            qi == InspectionOf(quality_requirements, t1)
            cc == InspectionOf(customer_requirements, t1)
            chain == IF qi # None /\ cc # None
                     THEN {Edge(t1, qi, FeS, product), Edge(qi, cc, FeS, product),
                           Edge(cc, t2, rel, product)}
                     ELSE IF qi # None
                     THEN {Edge(t1, qi, FeS, product), Edge(qi, t2, rel, product)}
                     ELSE IF cc # None
                     THEN {Edge(t1, cc, FeS, product), Edge(cc, t2, rel, product)}
                     ELSE {Edge(t1, t2, rel, product)}
        IN  (t1 # None /\ t2 # None)
                => /\ \A e \in chain : Cardinality(Occurrences(e)) = 1
                   /\ EdgesLeaving({t1, qi, cc} \ {None}) = chain

\* a resolved list with the full chain of a constraint that is not
\* Finish <= Start, in a finished run
C29_Witness ==
    /\ pc = "done"
    /\ \E ci \in DOMAIN precedence_constraints :
          LET t1 == task_instance_map("P", precedence_constraints[ci].First)
              t2 == task_instance_map("P", precedence_constraints[ci].Second)
          IN  /\ t1 # None /\ t2 # None
              /\ t1 \in DOMAIN quality_requirements
              /\ t1 \in DOMAIN customer_requirements
              /\ precedence_constraints[ci].Relationship # FS
              /\ Edge(customer_requirements[t1], t2,
                      normalize_relationship_type(precedence_constraints[ci].Relationship),
                      "P") \in Range(dynamic_constraints)
              /\ ~HasEdge(dynamic_constraints, t1, t2)

---------------------------------------------------------------------------
(* The reset between scenario runs *)

\* C30: whenever scenario 2 starts a probe of its binary search or scenario 3
\* an iteration, the schedule records are empty and the memoized list of
\* resolved constraints is dropped, so that the run resolves the constraints
\* afresh.
C30_ResetBetweenRuns ==
    [][(pc' = "loaded" /\ driver'.mode \in {"s2", "sa"})
          => (task_schedule' = <<>> /\ ~dynamic_constraints_cache'.valid)]_vars

---------------------------------------------------------------------------
(* The capacity vectors of the annealing *)

\* the largest headcount an instance assigned to `team` requires
RequiredHeadcount(team) ==
    MaxOf({tasks[t].mechanics_required :
              t \in {u \in DOMAIN tasks : tasks[u].team_skill = team}})

\* a primary with a quality inspection of one or two inspectors, delivered on
\* the start day or later
AnnealKnobs ==
    {[K0 EXCEPT !.qi = TRUE, !.qiHc = qh, !.capQ1 = 2, !.delivP = dp, !.hc1 = m,
                !.capM1 = 2, !.unit2 = "Mechanic Team 2"] :
        qh \in 1..MaxMechanics, dp \in {Day(0), Day(1), Day(10)},
        m \in 1..MaxMechanics}

AnnealInit == InitOn({MkInput(k) : k \in AnnealKnobs})

AnnealNext == Begin \/ Iterate \/ Finish \/ SAStart \/ SAStep

AnnealSpec == AnnealInit /\ [][AnnealNext]_vars

\* C31: no capacity vector the annealing evaluates gives a team less than the
\* largest headcount an instance assigned to that team requires.
C31_NeverBelowHeadcount ==
    (driver.mode = "sa" /\ pc = "loaded") =>
        /\ \A team \in DOMAIN driver.current_config.mechanic :
               driver.current_config.mechanic[team] >= RequiredHeadcount(team)
        /\ \A team \in DOMAIN driver.current_config.quality :
               driver.current_config.quality[team] >= RequiredHeadcount(team)

\* the teams with at least one instance without a schedule record
TeamsWithUnplaced == {tasks[t].team_skill : t \in DOMAIN tasks \ DOMAIN task_schedule}

\* C32: after an evaluation of the annealing that left instances unplaced, the
\* fix-unscheduled move raises by exactly 1 the capacity of every team with an
\* unplaced instance, however many it has, and leaves every other capacity and
\* the set of teams of the vector unchanged.
C32_FixRaisesByOne ==
    (driver.mode = "sa" /\ pc = "done" /\ DOMAIN tasks \ DOMAIN task_schedule # {}) =>
        LET config == driver.current_config
            new_config == fix_unscheduled_tasks(config)
        IN  /\ DOMAIN new_config.mechanic = DOMAIN config.mechanic
            /\ DOMAIN new_config.quality = DOMAIN config.quality
            /\ \A team \in DOMAIN config.mechanic :
                   new_config.mechanic[team]
                     = config.mechanic[team] + (IF team \in TeamsWithUnplaced THEN 1 ELSE 0)
            /\ \A team \in DOMAIN config.quality :
                   new_config.quality[team]
                     = config.quality[team] + (IF team \in TeamsWithUnplaced THEN 1 ELSE 0)

---------------------------------------------------------------------------
(* Two executions of the annealing on the same data *)

\* scenario_3_simulated_annealing has returned and is called again with the
\* same arguments; the load-time capacities are back in place.  `first` keeps
\* what the first execution returned
SAAgain ==
    /\ driver.mode = "sa_returned"
    /\ "first" \notin DOMAIN driver
    /\ driver.before_team = team_capacity
    /\ driver.before_quality = quality_team_capacity
    /\ SATrial(SALocals([target_earliness |-> driver.target_earliness,
                         max_iterations |-> driver.max_iterations])
               @@ [first |-> [config |-> driver.best_config,
                              metrics |-> driver.best_metrics]])
    /\ UNCHANGED <<csv, tasks, customer_team_capacity, now, ready_tasks,
                   task_retry_counts, failed_tasks, scheduled_count, iteration_count,
                   dynamic_constraints_cache, last>>

RepeatNext == Begin \/ Iterate \/ Finish \/ SAStart \/ SAStep \/ SAAgain

RepeatSpec == AnnealInit /\ [][RepeatNext]_vars

\* C33: two executions of the annealing on the same data, with the same
\* arguments, return the same capacity vector.
C33_SameVectorTwice ==
    (driver.mode = "sa_returned" /\ "first" \in DOMAIN driver)
        => driver.best_config = driver.first.config

---------------------------------------------------------------------------
(* The level-loading and critical-path-aware variants and the customer team *)

\* team_for_scheduling of schedule_tasks_with_level_loading and of
\* schedule_tasks_with_critical_path_awareness: the mapped quality team of a
\* quality task, team_skill of every other task; is_customer is never read
VariantTeam(task_instance_id) ==
    IF tasks[task_instance_id].is_quality
    THEN map_mechanic_to_quality_team(tasks[task_instance_id].team)
    ELSE tasks[task_instance_id].team_skill

\* the slot the variants ask for from the earliest start (the fallback of the
\* level-loading loop, the CRITICAL case of the critical-path loop): the call
\* passes is_quality only, is_customer keeps its default False
VariantSlot(task_instance_id) ==
    get_next_working_time_with_capacity(
        EarliestStart(task_instance_id), tasks[task_instance_id].product,
        VariantTeam(task_instance_id), tasks[task_instance_id].mechanics_required,
        tasks[task_instance_id].duration, tasks[task_instance_id].is_quality, FALSE)

\* C34: an instance that the base engine is about to place gets a slot from the
\* variants too; a customer inspection is looked up in the customer-team tables
\* and is not failed because of its type.
C34_VariantsKeepCustomerBranch ==
    \A t \in DOMAIN tasks :
        (AttemptsNow(t) /\ tasks[t].is_customer /\ Attempt(t).kind = "slot")
            => VariantSlot(t).found

---------------------------------------------------------------------------
(* One placement per instance *)

\* the instance ids on the ready heap, one per entry
HeapIds == [k \in 1..Len(ready_tasks) |-> ready_tasks[k][2]]

---------------------------------------------------------------------------
(* What the loop leaves behind *)

\* every predecessor of instance t has a schedule record (true of an instance
\* without predecessors)
PredecessorsPlaced(t) ==
    \A c \in Range(constraints_by_second(t)) : c.First \in DOMAIN task_schedule

\* C36: when schedule_tasks has terminated, every instance all of whose
\* predecessors are placed is placed itself or is in the failed set.
C36_ReadyInstancesSettled ==
    pc = "done" =>
        \A t \in DOMAIN tasks :
            PredecessorsPlaced(t) => (t \in DOMAIN task_schedule \/ t \in failed_tasks)

---------------------------------------------------------------------------
(* Instances that never become ready *)

\* two templates under a blocking relationship with a constraint back from the
\* second to the first that closes a cycle, and under each relationship without
\* one, in one or two products.  (A cycle through an instance that the seeding
\* pushes makes calculate_task_priority recurse without end.)
CycleKnobs ==
    {[K0 EXCEPT !.rel = r, !.cyc = TRUE, !.cycRel = b, !.two = t, !.dur2 = d2,
                !.unit2 = "Mechanic Team 2"] :
        r \in {FS, FF}, b \in {FS, FF}, t \in BOOLEAN, d2 \in {20, 60, 240}}
    \cup {[K0 EXCEPT !.rel = r, !.two = t, !.dur2 = d2, !.unit2 = "Mechanic Team 2"] :
            r \in Relationships, t \in BOOLEAN, d2 \in {20, 60, 240}}

CycleInit == InitOn({MkInput(k) : k \in CycleKnobs})

CycleSpec == CycleInit /\ [][Next]_vars

\* no visit of the loop ended without a slot: no retry was counted and no
\* instance was marked failed
EverySearchFoundASlot ==
    /\ \A t \in DOMAIN tasks : task_retry_counts[t] = 0
    /\ failed_tasks = {}

\* C37: when validate_dag accepts the resolved graph and every slot search of
\* the run returned a slot, the run ends with a schedule record for every
\* instance.
C37_EveryInstancePlaced ==
    (pc = "done" /\ validate_dag_on(dynamic_constraints) /\ EverySearchFoundASlot)
        => DOMAIN task_schedule = DOMAIN tasks

---------------------------------------------------------------------------
(* The start datum as a lower bound *)

\* a late part whose on-dock date lies before, at or after the start datum
DockKnobs ==
    {[K0 EXCEPT !.lp = TRUE, !.lpRel = lr, !.lpDock = od, !.lpSecond = sec,
                !.rel = r] :
        lr \in {FS, SS}, od \in {Day(-8), Day(-2), Day(0), Day(4)},
        sec \in {1, 2}, r \in {None, FS}}

DockInit == InitOn({MkInput(k) : k \in DockKnobs})

DockSpec == DockInit /\ [][Next]_vars

\* C38: every schedule record of schedule_tasks starts at or after the start
\* datum, 2025-08-22 06:00.
C38_NoStartBeforeDatum ==
    \A t \in DOMAIN task_schedule : task_schedule[t].start_time >= start_date

---------------------------------------------------------------------------
(* on_time against the unplaced instances and against the delivery datetime *)

\* C39: after a run, a product that calculate_lateness_metrics reports on time
\* has a schedule record for every one of its instances.
C39_OnTimeOnlyWhenComplete ==
    pc = "done" =>
        \A product \in DOMAIN delivery_dates :
            calculate_lateness_metrics[product].on_time
                => \A t \in DOMAIN tasks :
                       tasks[t].product = product => t \in DOMAIN task_schedule

\* C40: after a run, the last end among the records of a product that
\* calculate_lateness_metrics reports on time is not later than the delivery
\* datetime of the product.
C40_OnTimeNotAfterDelivery ==
    pc = "done" =>
        \A product \in DOMAIN delivery_dates :
            calculate_lateness_metrics[product].on_time
                => calculate_lateness_metrics[product].projected_completion
                       <= delivery_dates[product]

============================================================================
